---- MODULE Spec2Model ----
(***************************************************************************)
(* Model of the neovim-manager instance registry service                   *)
(* (src/src/manager/main.rs, src/src/lib.rs).                              *)
(*                                                                         *)
(* The manager process runs one task per accepted connection               *)
(* (handle_client) and one health check task, all sharing one              *)
(* Arc<RwLock<InstanceStorage>>.  Tasks run on a multi-threaded runtime,   *)
(* so every lock acquisition and every step taken under a guard is an      *)
(* interleaving point.                                                     *)
(***************************************************************************)
EXTENDS Integers, FiniteSets, Sequences, TLC

----------------------------------------------------------------------------
(* Bounds of the model *)

NumConns == 2          \* connections accepted by the server
MaxTime  == 1          \* Utc::now() ranges over 0..MaxTime
MaxReqs  == 3          \* request lines read by the server over all connections
MaxLines == 2          \* the same, in the scenario of lines of any content and connections ending
MaxCalls == 2          \* calls of ensure_manager_running by one control client
MaxLiveReqs == 2       \* the same, in the scenario of the health check task running forever

Conns == 1..NumConns
Sched == 0             \* the health check task spawned in main
Tasks == Conns \cup {Sched}

Ids   == {"A", "B"}            \* identifiers
Addrs == {"a1", "a2"}          \* server addresses
Times == 0..MaxTime

----------------------------------------------------------------------------
(* Program constants *)

INSTANCE_ALREADY_EXISTS == -32001
INSTANCE_NOT_FOUND      == -32002
HEALTH_CHECK_FAILED     == -32003
INTERNAL_ERROR          == -32000
PARSE_ERROR             == -32700
METHOD_NOT_FOUND        == -32601

----------------------------------------------------------------------------
(* Data *)

\* Option<T>
None    == [some |-> FALSE]
Some(x) == [some |-> TRUE, v |-> x]

\* enum HealthStatus
HealthStatus == {"Unknown", "Healthy"}

\* struct InstanceInfo
InstanceInfo(identifier, server_address, registered_at, last_ping, health_status, last_health_check) ==
    [identifier        |-> identifier,
     server_address    |-> server_address,
     registered_at     |-> registered_at,
     last_ping         |-> last_ping,
     health_status     |-> health_status,
     last_health_check |-> last_health_check]

\* struct InstanceResult, the snapshot copied out of a record
InstanceResult(instance) ==
    [identifier        |-> instance.identifier,
     server_address    |-> instance.server_address,
     health_status     |-> instance.health_status,
     last_health_check |-> instance.last_health_check]

\* serde_json::Value, as far as the manager produces it
JNull      == [t |-> "null"]
JStr(s)    == [t |-> "str", v |-> s]
JObj(o)    == [t |-> "obj", v |-> o]
JArr(xs)   == [t |-> "arr", v |-> xs]

\* struct JsonRpcError
JsonRpcError(code, message, data) ==
    [code |-> code, message |-> message, data |-> data]

\* a response built with Value::Null for its id, whatever the request's id
JsonRpcResponse_null_id(result, error, id) ==
    [jsonrpc |-> "2.0", result |-> result, error |-> error, id |-> [t |-> "null"]]

\* struct JsonRpcResponse
JsonRpcResponse(result, error, id) ==
    [jsonrpc |-> "2.0", result |-> result, error |-> error, id |-> id]

\* struct JsonRpcRequest with its params already decoded
JsonRpcRequest(method, identifier, server_address, id) ==
    [jsonrpc |-> "2.0", method |-> method, identifier |-> identifier,
     server_address |-> server_address, id |-> id]

NoReq   == [method |-> "none", identifier |-> "", server_address |-> "", id |-> ""]

----------------------------------------------------------------------------
(* InstanceStorage = HashMap<String, InstanceInfo>, kept as the set of its  *)
(* values; the key of a record is its identifier field.                    *)

Keys(storage) == {r.identifier : r \in storage}

contains_key(storage, k) == \E r \in storage : r.identifier = k

get(storage, k) == CHOOSE r \in storage : r.identifier = k

\* insert as a push onto a list of records: the value under an equal key stays
insert_push(storage, k, rec) == storage \cup {rec}

\* HashMap::insert replaces the value stored under an equal key
insert(storage, k, rec) == {r \in storage : r.identifier # k} \cup {rec}

\* HashMap::remove
remove(storage, k) == {r \in storage : r.identifier # k}

\* the removal loop left out: the records named in to_remove stay
remove_none(storage, ks) == storage

\* a removal loop that empties the table as soon as one probe failed
remove_all_clear(storage, ks) == IF ks = {} THEN storage ELSE {}

RECURSIVE remove_all(_, _)
remove_all(storage, ks) ==
    IF ks = {} THEN storage
    ELSE LET k == CHOOSE x \in ks : TRUE
         IN  remove_all(remove(storage, k), ks \ {k})

\* utils::check_nvim_instance: Ok(true), Ok(false) or Err
ProbeOutcomes == {"ok_true", "ok_false", "err"}

\* the outcomes check_nvim_instance can have for the record under this key: the
\* connection to an address where no Neovim answers any more is never established
Probe(storage, k, outcome, gone) ==
    \A r \in storage : (r.identifier = k /\ r.server_address \in gone) => outcome # "ok_true"

\* a probe that could not be carried out counted as a live instance
unwrap_or_true(outcome) == outcome # "ok_false"

\* Result<bool>::unwrap_or(false)
unwrap_or_false(outcome) == outcome = "ok_true"

----------------------------------------------------------------------------
(* State *)

VARIABLES
    instances,   \* InstanceManager.instances: the table behind the RwLock
    writer,      \* tasks holding a write guard of the RwLock
    readers,     \* tasks holding a read guard of the RwLock
    pc,          \* position of every task
    req,         \* handle_client: the request being handled on a connection
    reply,       \* handle_client: the response written for the request, None before it is written
    now,         \* health_check_all: local `now`
    to_remove,   \* health_check_all: local `to_remove`
    todo,        \* health_check_all: keys iter_mut has not yet visited
    clock,       \* the last reading of Utc::now(); readings never go back
    nreq,        \* number of request lines read so far
    regOk,       \* history: "registered" results per identifier since it was last absent
    regDup,      \* history: INSTANCE_ALREADY_EXISTS errors per identifier since it was last absent
    fresh,       \* history: endpoint registered, no sweep and no unregister since
    freshAny,    \* history: endpoint registered, no sweep since
    evicted,     \* history: identifiers evicted by a sweep and not registered again
    failed,      \* history: identifiers whose probe failed in a completed sweep
    removed,     \* history: per identifier, the health_status of the record last removed under it
    errs,        \* history: per task, identifiers whose probe returned Err in its running sweep
    seen,        \* history: what held when a connection's last read was taken
    swept,       \* history: outcome of the sweep that a list_instances call has run
    lines,       \* history: per connection, non-blank lines read, those of them that did not decode, response lines written, blank lines read
    dead,        \* environment: addresses at which no Neovim will answer again
    manager,     \* environment: the manager process at the client's address: "down", "starting" or "up"
    client,      \* ManagerClient::ensure_manager_running: position and locals of the current call
    send,        \* ManagerClient::send_request and the command that called it: position and locals
    launch       \* launcher main in local mode: per launcher process, position, locals and history

lock  == <<writer, readers>>
sweep == <<now, to_remove, todo, errs>>
hist  == <<regOk, regDup, fresh, freshAny, evicted, failed, removed>>
vars  == <<instances, writer, readers, pc, req, reply, now, to_remove, todo, clock, nreq, regOk, regDup, fresh, freshAny, evicted, failed, removed, errs, seen, swept, lines, dead, manager, client, send, launch>>
ext   == <<dead, manager, client, send, launch>>

Methods == {"query_instance", "list_instances", "register_instance", "unregister_instance"}

ReqIds == {JStr("u1")}   \* correlation ids chosen by callers: any serde_json::Value

\* The request lines a peer sends: one per method and parameter choice
Requests ==
    {JsonRpcRequest("query_instance", i, "", u) : i \in Ids, u \in ReqIds}
    \cup {JsonRpcRequest("list_instances", "", "", u) : u \in ReqIds}
    \cup {JsonRpcRequest("register_instance", ia[1], ia[2], u) : ia \in Ids \X Addrs, u \in ReqIds}
    \cup {JsonRpcRequest("unregister_instance", i, "", u) : i \in Ids, u \in ReqIds}

\* the control client before its first call; calls, attempts, fails and spawns are history:
\* the calls made so far and, in the current call, the connection attempts made, those
\* of them that failed and the manager processes spawned
NoCall == [pc |-> "start", i |-> 0, result |-> None, calls |-> 0, attempts |-> 0, fails |-> 0, spawns |-> 0]

\* the control client before its first command; sends, connects, written and read are
\* history: the calls of send_request so far and, in the current call, the connections
\* opened for the request, the request lines written and the response lines read
NoSend == [pc |-> "start", command |-> "", method |-> "", params |-> JNull, id |-> JNull, conn |-> 0,
           result |-> None, exit |-> None, out |-> "", sends |-> 0, connects |-> 0, written |-> 0, read |-> 0]

\* the launcher processes racing for one identifier
Launchers == 1 .. 2

\* a launcher before its main has run; launches, accepted, refused and guis are history:
\* the Neovim servers it has launched, the registrations of it that returned Ok(()) and
\* Err, and the GUI clients it has started
NoLaunch == [pc |-> "start", sent |-> FALSE, saw |-> "", server_address |-> "", child |-> "none",
             attempts |-> 0, launches |-> 0,
             accepted |-> 0, refused |-> 0, guis |-> 0, exit |-> None]

NoSweep == [left |-> {}, bad |-> {}, done |-> FALSE]
NoSeen  == [fresh |-> None, freshAny |-> None, evicted |-> {}, failed |-> {}, post |-> NoSweep]

Init ==
    /\ instances = {}
    /\ writer = {}
    /\ readers = {}
    /\ pc = [t \in Tasks |-> IF t = Sched THEN "tick" ELSE "idle"]
    /\ req = [c \in Conns |-> NoReq]
    /\ reply = [c \in Conns |-> None]
    /\ now = [t \in Tasks |-> 0]
    /\ to_remove = [t \in Tasks |-> {}]
    /\ todo = [t \in Tasks |-> {}]
    /\ clock = 0
    /\ nreq = 0
    /\ regOk = [i \in Ids |-> 0]
    /\ regDup = [i \in Ids |-> 0]
    /\ fresh = [i \in Ids |-> None]
    /\ freshAny = [i \in Ids |-> None]
    /\ evicted = {}
    /\ failed = {}
    /\ removed = [i \in Ids |-> None]
    /\ errs = [t \in Tasks |-> {}]
    /\ seen = [c \in Conns |-> NoSeen]
    /\ swept = [t \in Tasks |-> NoSweep]
    /\ lines = [c \in Conns |-> [read |-> 0, written |-> 0, undecoded |-> 0, blank |-> 0]]
    /\ dead = {}
    /\ manager = "down"
    /\ client = NoCall
    /\ send = NoSend
    /\ launch = [l \in Launchers |-> NoLaunch]

----------------------------------------------------------------------------
(* tokio::sync::RwLock<InstanceStorage> *)

\* RwLock::write().await returns once no guard is held
write(t) == writer = {} /\ readers = {} /\ writer' = {t} /\ readers' = readers

\* RwLock::read().await returns once no write guard is held
read(t) == writer = {} /\ readers' = readers \cup {t} /\ writer' = writer

\* dropping a write guard
drop_write(t) == writer' = writer \ {t} /\ readers' = readers

\* dropping a read guard
drop_read(t) == readers' = readers \ {t} /\ writer' = writer

----------------------------------------------------------------------------
(* handle_client: read one request line and dispatch it *)

WaitPc(method) ==
    CASE method = "query_instance"      -> "query_wait"
      [] method = "list_instances"      -> "list_wait"
      [] method = "register_instance"   -> "register_wait"
      [] method = "unregister_instance" -> "unregister_wait"

\* handle_client reading the next line while the request before it waits for the table
read_line_pipelined(c, r) ==
    /\ pc[c] \in {"idle", "query_wait", "list_wait", "register_wait", "unregister_wait"}
    /\ nreq < MaxReqs
    /\ nreq' = nreq + 1
    /\ req' = [req EXCEPT ![c] = r]
    /\ pc' = [pc EXCEPT ![c] = WaitPc(r.method)]
    /\ reply' = [reply EXCEPT ![c] = None]
    /\ seen' = [seen EXCEPT ![c] = NoSeen]
    /\ lines' = [lines EXCEPT ![c].read = @ + 1]
    /\ UNCHANGED <<instances, lock, sweep, clock, hist, swept, ext>>

read_line(c, r) ==
    /\ pc[c] = "idle"
    /\ nreq < MaxReqs
    /\ nreq' = nreq + 1
    /\ req' = [req EXCEPT ![c] = r]
    /\ pc' = [pc EXCEPT ![c] = WaitPc(r.method)]
    /\ reply' = [reply EXCEPT ![c] = None]
    /\ seen' = [seen EXCEPT ![c] = NoSeen]
    /\ lines' = [lines EXCEPT ![c].read = @ + 1]
    /\ UNCHANGED <<instances, lock, sweep, clock, hist, swept, ext>>

----------------------------------------------------------------------------
(* InstanceManager::query_instance *)

\* self.instances.read().await
query_instance_lock(c) ==
    /\ pc[c] = "query_wait"
    /\ read(c)
    /\ pc' = [pc EXCEPT ![c] = "query_read"]
    /\ UNCHANGED <<instances, req, reply, sweep, clock, nreq, hist, seen, swept, lines, ext>>

\* the Option<InstanceResult> that query_instance returns
query_result(storage, identifier) ==
    IF contains_key(storage, identifier) THEN Some(InstanceResult(get(storage, identifier))) ELSE None

\* Ok(None) answered with a response that has no result
query_response_absent(r, id) ==
    JsonRpcResponse(IF r.some THEN Some(JObj(r.v)) ELSE None, None, id)

\* handle_request: Ok(Some(instance)) => json!(instance), Ok(None) => Value::Null
query_response(r, id) ==
    JsonRpcResponse(Some(IF r.some THEN JObj(r.v) ELSE JNull), None, id)

\* query_instance probing the record it looks up and evicting it when the probe fails
query_instance_probing(c) ==
    /\ pc[c] = "query_read"
    /\ \E outcome \in ProbeOutcomes :
         instances' = IF unwrap_or_false(outcome) THEN instances ELSE remove(instances, req[c].identifier)
    /\ reply' = [reply EXCEPT ![c] = Some(query_response(query_result(instances', req[c].identifier), req[c].id))]
    /\ drop_read(c)
    /\ pc' = [pc EXCEPT ![c] = "idle"]
    /\ seen' = [seen EXCEPT ![c] = [fresh |-> fresh[req[c].identifier], freshAny |-> freshAny[req[c].identifier], evicted |-> evicted, failed |-> failed, post |-> NoSweep]]
    /\ lines' = [lines EXCEPT ![c].written = @ + 1]
    /\ UNCHANGED <<req, sweep, clock, nreq, hist, swept, ext>>

\* the lookup under the read guard, the response, the guard dropped
query_instance(c) ==
    /\ pc[c] = "query_read"
    /\ reply' = [reply EXCEPT ![c] = Some(query_response(query_result(instances, req[c].identifier), req[c].id))]
    /\ drop_read(c)
    /\ pc' = [pc EXCEPT ![c] = "idle"]
    /\ seen' = [seen EXCEPT ![c] = [fresh |-> fresh[req[c].identifier], freshAny |-> freshAny[req[c].identifier], evicted |-> evicted, failed |-> failed, post |-> NoSweep]]
    /\ lines' = [lines EXCEPT ![c].written = @ + 1]
    /\ UNCHANGED <<instances, req, sweep, clock, nreq, hist, swept, ext>>

----------------------------------------------------------------------------
(* InstanceManager::register_instance *)

\* self.instances.write().await
register_instance_lock(c) ==
    /\ pc[c] = "register_wait"
    /\ write(c)
    /\ pc' = [pc EXCEPT ![c] = "register_locked"]
    /\ UNCHANGED <<instances, req, reply, sweep, clock, nreq, hist, seen, swept, lines, ext>>

\* register_instance creating the record as already Healthy
register_instance_result_healthy(storage, identifier, server_address, t1, t2, t3) ==
    IF contains_key(storage, identifier)
    THEN [ok |-> FALSE, storage |-> storage]
    ELSE [ok |-> TRUE,
          storage |-> insert(storage, identifier, InstanceInfo(identifier, server_address, t1, t2, "Healthy", t3))]

\* register_instance without its contains_key test
register_instance_result_unchecked(storage, identifier, server_address, t1, t2, t3) ==
    [ok |-> TRUE,
     storage |-> insert(storage, identifier, InstanceInfo(identifier, server_address, t1, t2, "Unknown", t3))]

\* register_instance taking over the endpoint of the record it finds under the identifier
register_instance_result_taking_over(storage, identifier, server_address, t1, t2, t3) ==
    IF contains_key(storage, identifier)
    THEN [ok |-> FALSE,
          storage |-> insert(storage, identifier, [get(storage, identifier) EXCEPT !.server_address = server_address])]
    ELSE [ok |-> TRUE,
          storage |-> insert(storage, identifier, InstanceInfo(identifier, server_address, t1, t2, "Unknown", t3))]

\* the body of register_instance: t1, t2, t3 are its three readings of Utc::now()
register_instance_result(storage, identifier, server_address, t1, t2, t3) ==
    IF contains_key(storage, identifier)
    THEN [ok |-> FALSE, storage |-> storage]
    ELSE [ok |-> TRUE,
          storage |-> insert(storage, identifier, InstanceInfo(identifier, server_address, t1, t2, "Unknown", t3))]

\* handle_request: Ok(()) => "registered", Err(_) => INSTANCE_ALREADY_EXISTS
register_response(ok, identifier, id) ==
    IF ok
    THEN JsonRpcResponse(Some(JStr("registered")), None, id)
    ELSE JsonRpcResponse(None, Some(JsonRpcError(INSTANCE_ALREADY_EXISTS, "Instance already exists", Some([identifier |-> identifier]))), id)

register_instance(c) ==
    /\ pc[c] = "register_locked"
    /\ \E t1 \in clock..MaxTime : \E t2 \in t1..MaxTime : \E t3 \in t2..MaxTime :
         LET identifier == req[c].identifier
             res == register_instance_result(instances, identifier, req[c].server_address, t1, t2, t3)
         IN  /\ instances' = res.storage
             /\ clock' = IF res.ok THEN t3 ELSE clock
             /\ reply' = [reply EXCEPT ![c] = Some(register_response(res.ok, identifier, req[c].id))]
             /\ regOk' = IF reply'[c].v.result.some THEN [regOk EXCEPT ![identifier] = @ + 1] ELSE regOk
             /\ regDup' = IF reply'[c].v.error.some THEN [regDup EXCEPT ![identifier] = @ + 1] ELSE regDup
             /\ fresh' = IF res.ok THEN [fresh EXCEPT ![identifier] = Some(req[c].server_address)] ELSE fresh
             /\ freshAny' = IF res.ok THEN [freshAny EXCEPT ![identifier] = Some(req[c].server_address)] ELSE freshAny
             /\ evicted' = IF res.ok THEN evicted \ {identifier} ELSE evicted
    /\ drop_write(c)
    /\ pc' = [pc EXCEPT ![c] = "idle"]
    /\ lines' = [lines EXCEPT ![c].written = @ + 1]
    /\ UNCHANGED <<req, sweep, nreq, failed, removed, seen, swept, ext>>

----------------------------------------------------------------------------
(* InstanceManager::unregister_instance *)

\* self.instances.write().await
unregister_instance_lock(c) ==
    /\ pc[c] = "unregister_wait"
    /\ write(c)
    /\ pc' = [pc EXCEPT ![c] = "unregister_locked"]
    /\ UNCHANGED <<instances, req, reply, sweep, clock, nreq, hist, seen, swept, lines, ext>>

\* unregister_instance emptying the table
unregister_instance_result_clear(storage, identifier) ==
    [ok |-> contains_key(storage, identifier), storage |-> {}]

\* unregister_instance answering Ok(()) and leaving the record in the table
unregister_instance_result_kept(storage, identifier) ==
    [ok |-> contains_key(storage, identifier), storage |-> storage]

\* the body of unregister_instance: instances.remove(identifier).is_some()
unregister_instance_result(storage, identifier) ==
    [ok |-> contains_key(storage, identifier), storage |-> remove(storage, identifier)]

\* handle_request: Ok(()) => "unregistered", Err(_) => INSTANCE_NOT_FOUND
unregister_response(ok, identifier, id) ==
    IF ok
    THEN JsonRpcResponse(Some(JStr("unregistered")), None, id)
    ELSE JsonRpcResponse(None, Some(JsonRpcError(INSTANCE_NOT_FOUND, "Instance not found", Some([identifier |-> identifier]))), id)

unregister_instance(c) ==
    /\ pc[c] = "unregister_locked"
    /\ LET identifier == req[c].identifier
           res == unregister_instance_result(instances, identifier)
       IN  /\ instances' = res.storage
           /\ reply' = [reply EXCEPT ![c] = Some(unregister_response(res.ok, identifier, req[c].id))]
           /\ regOk' = IF res.ok THEN [regOk EXCEPT ![identifier] = 0] ELSE regOk
           /\ regDup' = IF res.ok THEN [regDup EXCEPT ![identifier] = 0] ELSE regDup
           /\ fresh' = IF res.ok THEN [fresh EXCEPT ![identifier] = None] ELSE fresh
           /\ removed' = IF res.ok THEN [removed EXCEPT ![identifier] = Some(get(instances, identifier).health_status)] ELSE removed
    /\ drop_write(c)
    /\ pc' = [pc EXCEPT ![c] = "idle"]
    /\ lines' = [lines EXCEPT ![c].written = @ + 1]
    /\ UNCHANGED <<req, sweep, clock, nreq, freshAny, evicted, failed, seen, swept, ext>>

----------------------------------------------------------------------------
(* InstanceManager::health_check_all *)

\* health_check_all reading Utc::now() before it waits for the write guard
health_check_all_lock_stale(t) ==
    /\ pc[t] \in {"list_wait", "sweep_wait"}
    /\ write(t)
    /\ \E n \in 0..clock : now' = [now EXCEPT ![t] = n]
    /\ to_remove' = [to_remove EXCEPT ![t] = {}]
    /\ todo' = [todo EXCEPT ![t] = Keys(instances)]
    /\ pc' = [pc EXCEPT ![t] = "sweep_iter"]
    /\ fresh' = [i \in Ids |-> None]
    /\ freshAny' = [i \in Ids |-> None]
    /\ swept' = [swept EXCEPT ![t] = NoSweep]
    /\ errs' = [errs EXCEPT ![t] = {}]
    /\ UNCHANGED <<instances, req, reply, clock, nreq, regOk, regDup, evicted, failed, removed, seen, lines, ext>>

\* health_check_all taking the read guard instead of the write guard
health_check_all_lock_shared(t) ==
    /\ pc[t] \in {"list_wait", "sweep_wait"}
    /\ read(t)
    /\ \E n \in clock..MaxTime : now' = [now EXCEPT ![t] = n] /\ clock' = n
    /\ to_remove' = [to_remove EXCEPT ![t] = {}]
    /\ todo' = [todo EXCEPT ![t] = Keys(instances)]
    /\ pc' = [pc EXCEPT ![t] = "sweep_iter"]
    /\ fresh' = [i \in Ids |-> None]
    /\ freshAny' = [i \in Ids |-> None]
    /\ swept' = [swept EXCEPT ![t] = NoSweep]
    /\ errs' = [errs EXCEPT ![t] = {}]
    /\ UNCHANGED <<instances, req, reply, nreq, regOk, regDup, evicted, failed, removed, seen, lines, ext>>

\* self.instances.write().await; now = Utc::now(); to_remove = Vec::new()
health_check_all_lock(t) ==
    /\ pc[t] \in {"list_wait", "sweep_wait"}
    /\ write(t)
    /\ \E n \in clock..MaxTime : now' = [now EXCEPT ![t] = n] /\ clock' = n
    /\ to_remove' = [to_remove EXCEPT ![t] = {}]
    /\ todo' = [todo EXCEPT ![t] = Keys(instances)]
    /\ pc' = [pc EXCEPT ![t] = "sweep_iter"]
    /\ fresh' = [i \in Ids |-> None]
    /\ freshAny' = [i \in Ids |-> None]
    /\ swept' = [swept EXCEPT ![t] = NoSweep]
    /\ errs' = [errs EXCEPT ![t] = {}]
    /\ UNCHANGED <<instances, req, reply, nreq, regOk, regDup, evicted, failed, removed, seen, lines, ext>>

\* the for loop body marking a record that fails its probe Unknown
health_check_one_downgrade(instance, is_healthy, n) ==
    IF is_healthy
    THEN [instance EXCEPT !.last_health_check = n, !.health_status = "Healthy", !.last_ping = n]
    ELSE [instance EXCEPT !.last_health_check = n, !.health_status = "Unknown"]

\* the for loop body leaving last_ping alone when the probe succeeds
health_check_one_no_ping(instance, is_healthy, n) ==
    IF is_healthy
    THEN [instance EXCEPT !.last_health_check = n, !.health_status = "Healthy"]
    ELSE [instance EXCEPT !.last_health_check = n]

\* the body of the for loop applied to one record
health_check_one(instance, is_healthy, n) ==
    IF is_healthy
    THEN [instance EXCEPT !.last_health_check = n, !.health_status = "Healthy", !.last_ping = n]
    ELSE [instance EXCEPT !.last_health_check = n]

\* the probe loop giving up the write guard after its last record, before the removals
health_check_all_probe_unlocking(t, identifier, outcome) ==
    /\ pc[t] = "sweep_iter"
    /\ identifier \in todo[t]
    /\ Probe(instances, identifier, outcome, dead)
    /\ todo' = [todo EXCEPT ![t] = @ \ {identifier}]
    /\ IF contains_key(instances, identifier)
       THEN LET instance == get(instances, identifier)
                is_healthy == unwrap_or_false(outcome)
            IN  /\ instances' = insert(instances, identifier, health_check_one(instance, is_healthy, now[t]))
                /\ to_remove' = IF is_healthy THEN to_remove ELSE [to_remove EXCEPT ![t] = @ \cup {identifier}]
       ELSE UNCHANGED <<instances, to_remove>>
    /\ errs' = IF outcome = "err" THEN [errs EXCEPT ![t] = @ \cup {identifier}] ELSE errs
    /\ IF todo'[t] = {} THEN drop_write(t) ELSE UNCHANGED lock
    /\ UNCHANGED <<pc, req, reply, now, clock, nreq, hist, seen, swept, lines, ext>>

\* one iteration of `for (identifier, instance) in instances.iter_mut()`
health_check_all_probe(t, identifier, outcome) ==
    /\ pc[t] = "sweep_iter"
    /\ identifier \in todo[t]
    /\ Probe(instances, identifier, outcome, dead)
    /\ todo' = [todo EXCEPT ![t] = @ \ {identifier}]
    /\ IF contains_key(instances, identifier)
       THEN LET instance == get(instances, identifier)
                is_healthy == unwrap_or_false(outcome)
            IN  /\ instances' = insert(instances, identifier, health_check_one(instance, is_healthy, now[t]))
                /\ to_remove' = IF is_healthy THEN to_remove ELSE [to_remove EXCEPT ![t] = @ \cup {identifier}]
       ELSE UNCHANGED <<instances, to_remove>>
    /\ errs' = IF outcome = "err" THEN [errs EXCEPT ![t] = @ \cup {identifier}] ELSE errs
    /\ UNCHANGED <<lock, pc, req, reply, now, clock, nreq, hist, seen, swept, lines, ext>>

\* a sweep that found a dead instance ending the health check task
health_check_all_finish_stopping(t) ==
    /\ pc[t] = "sweep_iter"
    /\ todo[t] = {}
    /\ instances' = remove_all(instances, to_remove[t])
    /\ drop_write(t)
    /\ pc' = [pc EXCEPT ![t] = IF t # Sched THEN "list_read_wait" ELSE IF to_remove[t] = {} THEN "tick" ELSE "stopped"]
    /\ to_remove' = [to_remove EXCEPT ![t] = {}]
    /\ evicted' = evicted \cup to_remove[t]
    /\ failed' = failed \cup to_remove[t]
    /\ removed' = [i \in Ids |-> IF i \in to_remove[t] /\ contains_key(instances, i)
                                THEN Some(get(instances, i).health_status) ELSE removed[i]]
    /\ regOk' = [i \in Ids |-> IF i \in to_remove[t] THEN 0 ELSE regOk[i]]
    /\ regDup' = [i \in Ids |-> IF i \in to_remove[t] THEN 0 ELSE regDup[i]]
    /\ swept' = [swept EXCEPT ![t] = IF t = Sched THEN NoSweep ELSE [left |-> Keys(instances'), bad |-> to_remove[t], done |-> TRUE]]
    /\ now' = [now EXCEPT ![t] = 0]
    /\ errs' = [errs EXCEPT ![t] = {}]
    /\ UNCHANGED <<req, reply, todo, clock, nreq, fresh, freshAny, seen, lines, ext>>

\* `for identifier in to_remove { instances.remove(&identifier) }`, Ok(()), the guard dropped
health_check_all_finish(t) ==
    /\ pc[t] = "sweep_iter"
    /\ todo[t] = {}
    /\ instances' = remove_all(instances, to_remove[t])
    /\ drop_write(t)
    /\ pc' = [pc EXCEPT ![t] = IF t = Sched THEN "tick" ELSE "list_read_wait"]
    /\ to_remove' = [to_remove EXCEPT ![t] = {}]
    /\ evicted' = evicted \cup to_remove[t]
    /\ failed' = failed \cup to_remove[t]
    /\ removed' = [i \in Ids |-> IF i \in to_remove[t] /\ contains_key(instances, i)
                                THEN Some(get(instances, i).health_status) ELSE removed[i]]
    /\ regOk' = [i \in Ids |-> IF i \in to_remove[t] THEN 0 ELSE regOk[i]]
    /\ regDup' = [i \in Ids |-> IF i \in to_remove[t] THEN 0 ELSE regDup[i]]
    /\ swept' = [swept EXCEPT ![t] = IF t = Sched THEN NoSweep ELSE [left |-> Keys(instances'), bad |-> to_remove[t], done |-> TRUE]]
    /\ now' = [now EXCEPT ![t] = 0]
    /\ errs' = [errs EXCEPT ![t] = {}]
    /\ UNCHANGED <<req, reply, todo, clock, nreq, fresh, freshAny, seen, lines, ext>>

----------------------------------------------------------------------------
(* InstanceManager::list_instances, after its health_check_all *)

\* self.instances.read().await
list_instances_lock(c) ==
    /\ pc[c] = "list_read_wait"
    /\ read(c)
    /\ pc' = [pc EXCEPT ![c] = "list_read"]
    /\ UNCHANGED <<instances, req, reply, sweep, clock, nreq, hist, seen, swept, lines, ext>>

\* instances.values().map(..).collect()
list_result(storage) == {InstanceResult(instance) : instance \in storage}

\* list_instances answering with HEALTH_CHECK_FAILED when its sweep left no record
list_response_health_check_failed(results, id) ==
    IF results = {}
    THEN JsonRpcResponse(None, Some(JsonRpcError(HEALTH_CHECK_FAILED, "Health check failed", None)), id)
    ELSE JsonRpcResponse(Some(JArr(results)), None, id)

\* handle_request: Ok(instances) => json!(instances)
list_response(results, id) == JsonRpcResponse(Some(JArr(results)), None, id)

list_instances(c) ==
    /\ pc[c] = "list_read"
    /\ reply' = [reply EXCEPT ![c] = Some(list_response(list_result(instances), req[c].id))]
    /\ drop_read(c)
    /\ pc' = [pc EXCEPT ![c] = "idle"]
    /\ seen' = [seen EXCEPT ![c] = [fresh |-> None, freshAny |-> None, evicted |-> evicted, failed |-> failed, post |-> swept[c]]]
    /\ swept' = [swept EXCEPT ![c] = NoSweep]
    /\ lines' = [lines EXCEPT ![c].written = @ + 1]
    /\ UNCHANGED <<instances, req, sweep, clock, nreq, hist, ext>>

----------------------------------------------------------------------------
(* main: the health check task *)

\* interval.tick().await returns
interval_tick ==
    /\ pc[Sched] = "tick"
    /\ pc' = [pc EXCEPT ![Sched] = "sweep_wait"]
    /\ UNCHANGED <<instances, lock, req, reply, sweep, clock, nreq, hist, seen, swept, lines, ext>>

----------------------------------------------------------------------------

Next ==
    \/ interval_tick
    \/ \E c \in Conns, r \in Requests : read_line(c, r)
    \/ \E c \in Conns : query_instance_lock(c)
    \/ \E c \in Conns : query_instance(c)
    \/ \E c \in Conns : register_instance_lock(c)
    \/ \E c \in Conns : register_instance(c)
    \/ \E c \in Conns : unregister_instance_lock(c)
    \/ \E c \in Conns : unregister_instance(c)
    \/ \E t \in Tasks : health_check_all_lock(t)
    \/ \E t \in Tasks, i \in Ids, o \in ProbeOutcomes : health_check_all_probe(t, i, o)
    \/ \E t \in Tasks : health_check_all_finish(t)
    \/ \E c \in Conns : list_instances_lock(c)
    \/ \E c \in Conns : list_instances(c)

Spec == Init /\ [][Next]_vars

----------------------------------------------------------------------------
(* handle_client and handle_request on lines of any content *)

\* a line as the peer sent it: text that is no JSON object of a request, or such an object
Text(str) == [t |-> "text", s |-> str]
Line(method, params, id) ==
    [t |-> "request", v |-> [jsonrpc |-> "2.0", method |-> method, params |-> params, id |-> id]]

WireMethods == Methods \cup {"shutdown", "ping"}
WireParams  == {JNull, JObj([identifier |-> "A"]), JObj([identifier |-> "A", server_address |-> "a1"])}
WireIds     == {JStr("u1"), JNull}

WireLines ==
    {Text(""), Text(" "), Text("not-json")}
    \cup {Line(m, ps, u) : m \in WireMethods, ps \in WireParams, u \in WireIds}

\* str::trim
trim(line) == IF line.t = "text" /\ line.s \in {"", " "} THEN Text("") ELSE line

\* str::is_empty
is_empty(line) == line.t = "text" /\ line.s = ""

\* serde_json::from_str::<JsonRpcRequest>
from_str(line) == IF line.t = "request" THEN Some(line.v) ELSE None

\* the params struct of a method
ParamsStruct(method) ==
    CASE method = "query_instance"      -> [name |-> "QueryInstanceParams", fields |-> {"identifier"}]
      [] method = "register_instance"   -> [name |-> "RegisterInstanceParams", fields |-> {"identifier", "server_address"}]
      [] method = "unregister_instance" -> [name |-> "UnregisterInstanceParams", fields |-> {"identifier"}]
      [] OTHER                          -> [name |-> "", fields |-> {}]

\* serde_json::from_value::<...Params>: Ok(params), or Err with serde's message (the
\* quotes serde puts around a field name left out)
from_value(method, params) ==
    LET st == ParamsStruct(method)
    IN  IF params.t # "obj"
        THEN [ok |-> FALSE, e |-> "invalid type: " \o params.t \o ", expected struct " \o st.name]
        ELSE IF "identifier" \in st.fields \ DOMAIN params.v
        THEN [ok |-> FALSE, e |-> "missing field identifier"]
        ELSE IF "server_address" \in st.fields \ DOMAIN params.v
        THEN [ok |-> FALSE, e |-> "missing field server_address"]
        ELSE [ok |-> TRUE, v |-> params.v]

\* the methods whose arm of handle_request decodes the params
DecodesParams(method) == method \in {"query_instance", "register_instance", "unregister_instance"}

\* the request with its params decoded
decoded(request) ==
    IF DecodesParams(request.method)
    THEN LET ps == from_value(request.method, request.params).v
         IN  JsonRpcRequest(request.method, ps.identifier,
                            IF request.method = "register_instance" THEN ps.server_address ELSE "", request.id)
    ELSE JsonRpcRequest(request.method, "", "", request.id)

\* the request as handle_request receives it when it calls nothing with it: params undecoded
undecoded_params(request) ==
    [jsonrpc |-> request.jsonrpc, method |-> request.method, params |-> request.params,
     identifier |-> "", server_address |-> "", id |-> request.id]

\* what handle_client holds of a line that is no request
Undecoded == [method |-> "undecoded", identifier |-> "", server_address |-> "", id |-> JNull]

\* the JsonRpcError inside a response line: data is skipped when None (skip_serializing_if)
to_string_error(error) ==
    IF error.data.some
    THEN [code |-> error.code, message |-> error.message, data |-> error.data.v]
    ELSE [code |-> error.code, message |-> error.message]

\* serde_json::to_string(&response): the members of the line; result and error are
\* skipped when None (skip_serializing_if), a result of Value::Null is written as null
to_string(response) ==
    CASE response.result.some /\ response.error.some ->
             [jsonrpc |-> response.jsonrpc, result |-> response.result.v, error |-> to_string_error(response.error.v), id |-> response.id]
      [] response.result.some /\ ~response.error.some ->
             [jsonrpc |-> response.jsonrpc, result |-> response.result.v, id |-> response.id]
      [] ~response.result.some /\ response.error.some ->
             [jsonrpc |-> response.jsonrpc, error |-> to_string_error(response.error.v), id |-> response.id]
      [] OTHER ->
             [jsonrpc |-> response.jsonrpc, id |-> response.id]

\* handle_client: Err(e) of from_str => the "Parse error" response
parse_error_response ==
    JsonRpcResponse(None, Some(JsonRpcError(PARSE_ERROR, "Parse error", None)), JNull)

\* handle_request: the arm `_` of the match on the method
method_not_found_response(id) ==
    JsonRpcResponse(None, Some(JsonRpcError(METHOD_NOT_FOUND, "Method not found", None)), id)

\* params that do not decode answered with the code -32602 and no text
invalid_parameters_response_32602(e, id) ==
    JsonRpcResponse(None, Some(JsonRpcError(-32602, "Invalid params", None)), id)

\* handle_request: Err(e) of from_value => "Invalid parameters: {e}"
invalid_parameters_response(e, id) ==
    JsonRpcResponse(None, Some(JsonRpcError(INTERNAL_ERROR, "Invalid parameters: " \o e, None)), id)

\* handle_client: a line answered without a call into the table: the response is built,
\* encoded and handed to write_all, and the loop is back at read_line
respond(c, request, response) ==
    /\ pc[c] = "idle"
    /\ nreq' = nreq + 1
    /\ req' = [req EXCEPT ![c] = request]
    /\ reply' = [reply EXCEPT ![c] = Some(response)]
    /\ lines' = [lines EXCEPT ![c] = [read |-> @.read + 1, written |-> @.written + 1,
                                      undecoded |-> @.undecoded + (IF request.method = "undecoded" THEN 1 ELSE 0),
                                      blank |-> @.blank]]
    /\ seen' = [seen EXCEPT ![c] = NoSeen]
    /\ UNCHANGED <<instances, lock, pc, sweep, clock, hist, swept, ext>>

\* a blank line ending the connection
skip_blank_closing(c, line) ==
    /\ pc[c] = "idle"
    /\ is_empty(trim(line))
    /\ nreq' = nreq + 1
    /\ lines' = [lines EXCEPT ![c].blank = @ + 1]
    /\ pc' = [pc EXCEPT ![c] = "closed"]
    /\ UNCHANGED <<instances, lock, req, reply, sweep, clock, hist, seen, swept, ext>>

\* `if trimmed.is_empty() { continue; }`
skip_blank(c, line) ==
    /\ pc[c] = "idle"
    /\ is_empty(trim(line))
    /\ nreq' = nreq + 1
    /\ lines' = [lines EXCEPT ![c].blank = @ + 1]
    /\ UNCHANGED <<instances, lock, pc, req, reply, sweep, clock, hist, seen, swept, ext>>

\* a line that does not decode answered and the connection given up
parse_error_closing(c, line) ==
    /\ ~is_empty(trim(line))
    /\ ~from_str(trim(line)).some
    /\ pc[c] = "idle"
    /\ nreq' = nreq + 1
    /\ req' = [req EXCEPT ![c] = Undecoded]
    /\ reply' = [reply EXCEPT ![c] = Some(parse_error_response)]
    /\ lines' = [lines EXCEPT ![c] = [read |-> @.read + 1, written |-> @.written + 1, undecoded |-> @.undecoded + 1, blank |-> @.blank]]
    /\ seen' = [seen EXCEPT ![c] = NoSeen]
    /\ pc' = [pc EXCEPT ![c] = "closed"]
    /\ UNCHANGED <<instances, lock, sweep, clock, hist, swept, ext>>

\* from_str fails
parse_error(c, line) ==
    /\ ~is_empty(trim(line))
    /\ ~from_str(trim(line)).some
    /\ respond(c, Undecoded, parse_error_response)

\* handle_request on a method it has no arm for
method_not_found(c, line) ==
    /\ from_str(trim(line)).some
    /\ LET request == from_str(trim(line)).v
       IN  /\ request.method \notin Methods \cup {"shutdown"}
           /\ respond(c, undecoded_params(request), method_not_found_response(request.id))

\* handle_request on a method whose params do not decode
invalid_parameters(c, line) ==
    /\ from_str(trim(line)).some
    /\ LET request == from_str(trim(line)).v
           ps == from_value(request.method, request.params)
       IN  /\ DecodesParams(request.method)
           /\ ~ps.ok
           /\ respond(c, undecoded_params(request), invalid_parameters_response(ps.e, request.id))

\* handle_request calling into the table
dispatch(c, line) ==
    /\ from_str(trim(line)).some
    /\ LET request == from_str(trim(line)).v
       IN  /\ request.method \in Methods
           /\ DecodesParams(request.method) => from_value(request.method, request.params).ok
           /\ read_line(c, decoded(request))

\* "shutdown" ending the task of its own connection only
shutdown_own_task(c, line) ==
    /\ pc[c] = "idle"
    /\ from_str(trim(line)).some
    /\ LET request == from_str(trim(line)).v
       IN  /\ request.method = "shutdown"
           /\ req' = [req EXCEPT ![c] = undecoded_params(request)]
    /\ nreq' = nreq + 1
    /\ lines' = [lines EXCEPT ![c].read = @ + 1]
    /\ reply' = [reply EXCEPT ![c] = None]
    /\ pc' = [pc EXCEPT ![c] = "exited"]
    /\ UNCHANGED <<instances, lock, sweep, clock, hist, seen, swept, ext>>

\* handle_request on "shutdown": std::process::exit(0) ends every task of the process
shutdown(c, line) ==
    /\ pc[c] = "idle"
    /\ from_str(trim(line)).some
    /\ LET request == from_str(trim(line)).v
       IN  /\ request.method = "shutdown"
           /\ req' = [req EXCEPT ![c] = undecoded_params(request)]
    /\ nreq' = nreq + 1
    /\ lines' = [lines EXCEPT ![c].read = @ + 1]
    /\ reply' = [reply EXCEPT ![c] = None]
    /\ pc' = [t \in Tasks |-> "exited"]
    /\ UNCHANGED <<instances, lock, sweep, clock, hist, seen, swept, ext>>

\* read_line returns Ok(0): the peer closed the connection, the loop breaks, Ok(())
read_eof(c) ==
    /\ pc[c] = "idle"
    /\ pc' = [pc EXCEPT ![c] = "closed"]
    /\ UNCHANGED <<instances, lock, req, reply, sweep, clock, nreq, hist, seen, swept, lines, ext>>

\* an Err of read_line, write_all or flush ending the whole process
io_error_fatal(c) ==
    /\ pc[c] = "idle"
    /\ pc' = [t \in Tasks |-> IF t = c THEN "failed" ELSE "exited"]
    /\ UNCHANGED <<instances, lock, req, reply, sweep, clock, nreq, hist, seen, swept, lines, ext>>

\* read_line, write_all or flush returns Err: handle_client returns it through `?`
io_error(c) ==
    /\ pc[c] = "idle"
    /\ pc' = [pc EXCEPT ![c] = "failed"]
    /\ UNCHANGED <<instances, lock, req, reply, sweep, clock, nreq, hist, seen, swept, lines, ext>>

NextWire ==
    \/ \E c \in Conns, line \in WireLines : nreq < MaxLines /\ skip_blank(c, line)
    \/ \E c \in Conns, line \in WireLines : nreq < MaxLines /\ parse_error(c, line)
    \/ \E c \in Conns, line \in WireLines : nreq < MaxLines /\ method_not_found(c, line)
    \/ \E c \in Conns, line \in WireLines : nreq < MaxLines /\ invalid_parameters(c, line)
    \/ \E c \in Conns, line \in WireLines : nreq < MaxLines /\ dispatch(c, line)
    \/ \E c \in Conns, line \in WireLines : nreq < MaxLines /\ shutdown(c, line)
    \/ \E c \in Conns : read_eof(c)
    \/ \E c \in Conns : io_error(c)
    \/ interval_tick
    \/ \E c \in Conns : query_instance_lock(c)
    \/ \E c \in Conns : query_instance(c)
    \/ \E c \in Conns : register_instance_lock(c)
    \/ \E c \in Conns : register_instance(c)
    \/ \E c \in Conns : unregister_instance_lock(c)
    \/ \E c \in Conns : unregister_instance(c)
    \/ \E t \in Tasks : health_check_all_lock(t)
    \/ \E t \in Tasks, i \in Ids, o \in ProbeOutcomes : health_check_all_probe(t, i, o)
    \/ \E t \in Tasks : health_check_all_finish(t)
    \/ \E c \in Conns : list_instances_lock(c)
    \/ \E c \in Conns : list_instances(c)

SpecWire == Init /\ [][NextWire]_vars

----------------------------------------------------------------------------
(* ManagerClient::ensure_manager_running *)

\* Result<()>
Ok     == [ok |-> TRUE]
Err(e) == [ok |-> FALSE, e |-> e]

\* the inclusive range 0..=10
range_0_10_inclusive == 0 .. 10

\* the Range 0..10 of `for i in 0..10`: its end is exclusive
range_0_10 == 0 .. 9

\* everything of the manager process
server == <<instances, lock, pc, req, reply, sweep, clock, nreq, hist, seen, swept, lines, dead>>

\* TcpStream::connect(&self.addr).await.is_ok(): a manager is listening at the address
connect_is_ok == manager = "up"

\* the first connection attempt; Ok(()) when it succeeds
ensure_manager_running_connect ==
    /\ client.pc \in {"start", "done"}
    /\ client.calls < MaxCalls
    /\ client' = [pc |-> IF connect_is_ok THEN "done" ELSE "start_manager",
                  i |-> 0,
                  result |-> IF connect_is_ok THEN Some(Ok) ELSE None,
                  calls |-> client.calls + 1,
                  attempts |-> 1,
                  fails |-> IF connect_is_ok THEN 0 ELSE 1,
                  spawns |-> 0]
    /\ UNCHANGED <<server, manager, send, launch>>

\* self.start_manager()?: current_exe, parent or spawn may fail; the child then starts up
start_manager(spawned) ==
    /\ client.pc = "start_manager"
    /\ IF spawned
       THEN /\ client' = [client EXCEPT !.pc = "for", !.spawns = @ + 1]
            /\ manager' = IF manager = "down" THEN "starting" ELSE manager
       ELSE /\ client' = [client EXCEPT !.pc = "done", !.result = Some(Err("spawn failed"))]
            /\ UNCHANGED manager
    /\ UNCHANGED <<server, send, launch>>

\* the head of the for loop and sleep(Duration::from_millis(500)); after the loop
\* Err("Manager not responding after startup")
ensure_manager_running_for ==
    /\ client.pc = "for"
    /\ client' = IF client.i \in range_0_10
                 THEN [client EXCEPT !.pc = "retry"]
                 ELSE [client EXCEPT !.pc = "done", !.result = Some(Err("Manager not responding after startup"))]
    /\ UNCHANGED <<server, manager, send, launch>>

\* the connection attempt in the loop body; Ok(()) when it succeeds
ensure_manager_running_retry ==
    /\ client.pc = "retry"
    /\ client' = IF connect_is_ok
                 THEN [client EXCEPT !.pc = "done", !.result = Some(Ok), !.attempts = @ + 1]
                 ELSE [client EXCEPT !.pc = "for", !.i = @ + 1, !.attempts = @ + 1, !.fails = @ + 1]
    /\ UNCHANGED <<server, manager, send, launch>>

\* main of the manager: TcpListener::bind succeeds or fails; the process exits; somebody
\* else starts one
manager_step(from, to) ==
    /\ <<from, to>> \in {<<"starting", "up">>, <<"starting", "down">>, <<"up", "down">>, <<"down", "starting">>}
    /\ manager = from
    /\ manager' = to
    /\ UNCHANGED <<server, client, send, launch>>

NextClient ==
    \/ ensure_manager_running_connect
    \/ \E spawned \in BOOLEAN : start_manager(spawned)
    \/ ensure_manager_running_for
    \/ ensure_manager_running_retry
    \/ \E from, to \in {"down", "starting", "up"} : manager_step(from, to)

\* The client is one task: once called, start_manager returns, the sleep ends and a
\* connection attempt succeeds or fails.
FairClient ==
    WF_vars((\E spawned \in BOOLEAN : start_manager(spawned)) \/ ensure_manager_running_for \/ ensure_manager_running_retry)

SpecClient == Init /\ [][NextClient]_vars /\ FairClient

----------------------------------------------------------------------------
(* Reading responses *)

IsStr(j, str) == j.t = "str" /\ j.v = str

IsNull(j) == j.t = "null"

\* the response carries a result and no error
IsResult(resp) == resp.result.some /\ ~resp.error.some

\* the response carries an error with this code, and no result
IsError(resp, code) == ~resp.result.some /\ resp.error.some /\ resp.error.v.code = code

\* the error's data is {"identifier": identifier}
ErrorNames(resp, identifier) == resp.error.v.data.some /\ resp.error.v.data.v.identifier = identifier

\* connection c has written the response to a request of this method
Answered(c, method) == req[c].method = method /\ reply[c].some

\* tasks inside a section that mutates the table
Writing == {t \in Tasks : pc[t] \in {"register_locked", "unregister_locked", "sweep_iter"}}

\* tasks inside a section that reads the table
Reading == {t \in Tasks : pc[t] \in {"query_read", "list_read"}}

----------------------------------------------------------------------------
(* Properties *)

\* C1: among the register_instance requests for one identifier with no unregister or
\* eviction of it in between, exactly one is answered "registered" and every other one
\* is answered with an INSTANCE_ALREADY_EXISTS error whose data carries the identifier.
C1_ExactlyOneRegistered ==
    /\ \A i \in Ids : regOk[i] + regDup[i] > 0 => regOk[i] = 1
    /\ \A c \in Conns : Answered(c, "register_instance") =>
          \/ IsResult(reply[c].v) /\ IsStr(reply[c].v.result.v, "registered")
          \/ IsError(reply[c].v, INSTANCE_ALREADY_EXISTS) /\ ErrorNames(reply[c].v, req[c].identifier)

\* two connections registered the same identifier: one "registered", one INSTANCE_ALREADY_EXISTS
C1_Witness ==
    \E c1, c2 \in Conns :
        /\ c1 # c2
        /\ Answered(c1, "register_instance") /\ Answered(c2, "register_instance")
        /\ req[c1].identifier = req[c2].identifier
        /\ IsResult(reply[c1].v)
        /\ IsError(reply[c2].v, INSTANCE_ALREADY_EXISTS)
        /\ regOk[req[c1].identifier] = 1 /\ regDup[req[c1].identifier] = 1

\* C2: in every reachable state the registry holds at most one record per identifier.
C2_UniqueIdentifier ==
    \A r1, r2 \in instances : r1.identifier = r2.identifier => r1 = r2

\* a full registry in which a second registration of a present identifier was refused
C2_Witness ==
    /\ Keys(instances) = Ids
    /\ \E i \in Ids : regDup[i] > 0

\* C3: at any moment either readers (query, the read phase of list) are inside the table
\* or exactly one writer (register, unregister, sweep) is, never a writer with a reader
\* or with another writer; two sweeps never overlap.
C3_ReaderWriterExclusion ==
    /\ Cardinality(Writing) <= 1
    /\ Writing # {} => Reading = {}
    /\ Writing \subseteq writer
    /\ Reading \subseteq readers

\* the scheduled sweep is running while a list-triggered sweep and a query wait for the table
C3_Witness ==
    /\ pc[Sched] = "sweep_iter"
    /\ \E c1, c2 \in Conns : pc[c1] = "list_wait" /\ pc[c2] = "query_wait"

\* the identifiers listed in an array of snapshots
Listed(j) == {snapshot.identifier : snapshot \in j.v}

\* the response is a snapshot with this endpoint and status Unknown
IsFreshSnapshot(resp, server_address) ==
    /\ IsResult(resp)
    /\ resp.result.v.t = "obj"
    /\ resp.result.v.v.server_address = server_address
    /\ resp.result.v.v.health_status = "Unknown"

\* C4 as claimed: after register_instance(id, addr) succeeds, every query_instance(id)
\* answered before the next health sweep runs returns a snapshot with server_address =
\* addr and health_status = Unknown.
C4_Claimed ==
    \A c \in Conns : (Answered(c, "query_instance") /\ seen[c].freshAny.some) =>
        IsFreshSnapshot(reply[c].v, seen[c].freshAny.v)

\* C4 as amended: after register_instance(id, addr) succeeds, every query_instance(id)
\* answered before the next health sweep runs and before id is unregistered returns a
\* snapshot with server_address = addr and health_status = Unknown.
C4_FreshUntilSweepOrUnregister ==
    \A c \in Conns : (Answered(c, "query_instance") /\ seen[c].fresh.some) =>
        IsFreshSnapshot(reply[c].v, seen[c].fresh.v)

\* a query answered with the Unknown snapshot of a registration no sweep has visited
C4_Witness ==
    \E c \in Conns :
        /\ Answered(c, "query_instance")
        /\ seen[c].fresh.some
        /\ IsFreshSnapshot(reply[c].v, seen[c].fresh.v)

\* C5 as claimed: after a sweep in which the probe of a registered identifier failed, every
\* later query_instance for it returns null and no later list_instances result includes it.
C5_Claimed ==
    \A c \in Conns :
        /\ (Answered(c, "query_instance") /\ req[c].identifier \in seen[c].failed) =>
               IsResult(reply[c].v) /\ IsNull(reply[c].v.result.v)
        /\ Answered(c, "list_instances") =>
               IsResult(reply[c].v) /\ Listed(reply[c].v.result.v) \cap seen[c].failed = {}

\* C5 as amended: after a sweep in which the probe of a registered identifier failed, every
\* later query_instance for it returns null and no later list_instances result includes it,
\* until a register_instance for that identifier succeeds again.
C5_EvictedUntilRegistered ==
    \A c \in Conns :
        /\ (Answered(c, "query_instance") /\ req[c].identifier \in seen[c].evicted) =>
               IsResult(reply[c].v) /\ IsNull(reply[c].v.result.v)
        /\ Answered(c, "list_instances") =>
               IsResult(reply[c].v) /\ Listed(reply[c].v.result.v) \cap seen[c].evicted = {}

\* a query answered null for an identifier that a sweep evicted
C5_Witness ==
    \E c \in Conns :
        /\ Answered(c, "query_instance")
        /\ req[c].identifier \in seen[c].evicted
        /\ IsNull(reply[c].v.result.v)

\* C6: the result of list_instances is exactly the registry contents left by the sweep
\* that this list_instances call ran: it holds no identifier whose probe failed in that
\* sweep and only records that sweep probed successfully.
C6_ListIsSweepOutcome ==
    \A c \in Conns : Answered(c, "list_instances") =>
        /\ seen[c].post.done
        /\ Listed(reply[c].v.result.v) = seen[c].post.left
        /\ Listed(reply[c].v.result.v) \cap seen[c].post.bad = {}
        /\ \A snapshot \in reply[c].v.result.v.v : snapshot.health_status = "Healthy"

\* task t probes the record of this identifier in the step
Probes(t, identifier) ==
    pc[t] = "sweep_iter" /\ identifier \in todo[t] /\ identifier \notin todo'[t]

\* C7: the health_status of a record changes from Unknown to Healthy only in a sweep whose
\* probe of that record succeeded, and never goes from Healthy back to Unknown: a failed
\* probe leaves the status alone and the record is removed at the end of the sweep.
C7_StatusOnlyRises ==
    [][\A r1 \in instances : \A r2 \in instances' : r1.identifier = r2.identifier =>
          /\ r1.health_status = "Healthy" => r2.health_status = "Healthy"
          /\ (r1.health_status = "Unknown" /\ r2.health_status = "Healthy") =>
                \E t \in Tasks : Probes(t, r1.identifier) /\ r1.identifier \notin to_remove'[t]
          /\ (\E t \in Tasks : Probes(t, r1.identifier) /\ r1.identifier \in to_remove'[t]) =>
                r2.health_status = r1.health_status
      ]_vars

\* a Healthy record has failed its probe in the running sweep and awaits removal, still Healthy
C7_Witness ==
    \E t \in Tasks : \E r \in instances :
        /\ pc[t] = "sweep_iter"
        /\ r.identifier \in to_remove[t]
        /\ r.health_status = "Healthy"

\* C8: the last_health_check of a record never decreases: a sweep sets it to a time not
\* earlier than its previous value and no other operation changes it.
C8_LastHealthCheckMonotone ==
    [][\A r1 \in instances : \A r2 \in instances' : r1.identifier = r2.identifier =>
          /\ r2.last_health_check >= r1.last_health_check
          /\ r2.last_health_check # r1.last_health_check =>
                \E t \in Tasks : Probes(t, r1.identifier)
      ]_vars

\* a sweep has moved the last_health_check of a record past the time of its registration
C8_Witness ==
    \E r \in instances :
        /\ r.health_status = "Healthy"
        /\ r.registered_at = 0
        /\ r.last_health_check = MaxTime

\* connection c runs the body of unregister_instance in the step
Unregisters(c) == pc[c] = "unregister_locked" /\ pc'[c] = "idle"

\* C9: unregister_instance on an identifier that is not registered returns an
\* INSTANCE_NOT_FOUND error carrying the identifier and leaves the registry unchanged; on a
\* registered identifier it returns "unregistered" and removes exactly that record, so
\* that a query_instance for it on the resulting registry returns null.
C9_Unregister ==
    [][\A c \in Conns : Unregisters(c) =>
          IF req[c].identifier \in Keys(instances)
          THEN /\ IsResult(reply'[c].v) /\ IsStr(reply'[c].v.result.v, "unregistered")
               /\ instances' \subseteq instances
               /\ Keys(instances') = Keys(instances) \ {req[c].identifier}
               /\ Cardinality(instances') = Cardinality(instances) - 1
               /\ IsNull(query_response(query_result(instances', req[c].identifier), req[c].id).result.v)
          ELSE /\ IsError(reply'[c].v, INSTANCE_NOT_FOUND)
               /\ ErrorNames(reply'[c].v, req[c].identifier)
               /\ instances' = instances
      ]_vars

\* an unregister_instance was answered "unregistered" and the other record is still registered
C9_Witness ==
    \E c \in Conns :
        /\ Answered(c, "unregister_instance")
        /\ IsResult(reply[c].v)
        /\ Keys(instances) = Ids \ {req[c].identifier}

\* connection c takes a step of query_instance
Queries(c) == pc[c] \in {"query_wait", "query_read"} /\ pc'[c] # pc[c]

\* C10: query_instance is a pure read: its steps run no liveness probe and leave every
\* record of the registry unchanged, whether the identifier is registered or not.
C10_QueryIsPureRead ==
    [][\A c \in Conns : Queries(c) =>
          /\ instances' = instances
          /\ UNCHANGED <<now, to_remove, todo>>
          /\ ~ \E t \in Tasks, i \in Ids, o \in ProbeOutcomes : health_check_all_probe(t, i, o)
      ]_vars

\* a query of a registered identifier was answered while the registry holds its record
C10_Witness ==
    \E c \in Conns :
        /\ Answered(c, "query_instance")
        /\ reply[c].v.result.v.t = "obj"
        /\ reply[c].v.result.v.v \in list_result(instances)

\* task t is inside a sweep: it has probed some records, not yet all, or not yet removed
\* the records whose probe failed
MidSweep(t) == pc[t] = "sweep_iter" \/ to_remove[t] # {} \/ todo[t] # {}

\* C11: a health sweep probes, updates and evicts inside one exclusive section: while a
\* query or a list reads the table no sweep is under way, so that no reader sees a record
\* whose probe has failed in a running sweep, nor a mix of visited and unvisited records.
C11_NoPartialSweepVisible ==
    \A c \in Conns : (c \in readers \/ c \in Reading) => \A t \in Tasks : ~MidSweep(t)

\* a sweep holds a record whose probe failed and has a record left to visit, while a query
\* of the failed record waits for the table
C11_Witness ==
    \E t \in Tasks : \E c \in Conns :
        /\ pc[t] = "sweep_iter"
        /\ to_remove[t] # {} /\ to_remove[t] \subseteq Keys(instances)
        /\ todo[t] # {}
        /\ pc[c] = "query_wait"
        /\ req[c].identifier \in to_remove[t]

\* connection c runs the body of register_instance in the step
Registers(c) == pc[c] = "register_locked" /\ pc'[c] = "idle"

\* task t runs the removal loop of its sweep in the step
SweepEnds(t) == pc[t] = "sweep_iter" /\ pc'[t] # "sweep_iter"

\* C13: the set of registered identifiers changes only by a successful register, which adds
\* exactly the requested identifier, by a successful unregister, which removes exactly the
\* requested identifier, and by a sweep, which removes exactly the identifiers whose probe
\* failed in it; an existing record is changed only by a sweep probing it, and then only
\* in its status and timestamps.
C13_RegistryChanges ==
    [][/\ Keys(instances') # Keys(instances) =>
             \/ \E c \in Conns :
                   /\ Registers(c)
                   /\ IsResult(reply'[c].v)
                   /\ req[c].identifier \notin Keys(instances)
                   /\ Keys(instances') = Keys(instances) \cup {req[c].identifier}
             \/ \E c \in Conns :
                   /\ Unregisters(c)
                   /\ IsResult(reply'[c].v)
                   /\ req[c].identifier \in Keys(instances)
                   /\ Keys(instances') = Keys(instances) \ {req[c].identifier}
             \/ \E t \in Tasks :
                   /\ SweepEnds(t)
                   /\ to_remove[t] \subseteq Keys(instances)
                   /\ Keys(instances') = Keys(instances) \ to_remove[t]
       /\ \A c \in Conns : (Registers(c) /\ IsResult(reply'[c].v)) =>
             req[c].identifier \in Keys(instances') \ Keys(instances)
       /\ \A c \in Conns : (Unregisters(c) /\ IsResult(reply'[c].v)) =>
             req[c].identifier \in Keys(instances) \ Keys(instances')
       /\ \A r1 \in instances : \A r2 \in instances' : (r1.identifier = r2.identifier /\ r1 # r2) =>
             /\ \E t \in Tasks : Probes(t, r1.identifier)
             /\ r2.server_address = r1.server_address
             /\ r2.registered_at = r1.registered_at
      ]_vars

\* a register and an unregister have succeeded and a sweep has evicted the record whose probe failed
C13_Witness ==
    \E c1, c2 \in Conns :
        /\ Answered(c1, "register_instance") /\ IsResult(reply[c1].v)
        /\ Answered(c2, "unregister_instance") /\ IsResult(reply[c2].v)
        /\ evicted = {req[c1].identifier}
        /\ instances = {}

----------------------------------------------------------------------------
(* Requests and responses on the wire *)

\* C14 as claimed: every response the server writes carries the id of the request it
\* answers, whether it holds a result or an error; the id is null only when the request
\* line could not be parsed.
C14_Claimed ==
    \A c \in Conns : reply[c].some =>
        /\ req[c].method # "undecoded" => reply[c].v.id = req[c].id
        /\ IsNull(reply[c].v.id) => req[c].method = "undecoded"

\* C14 as amended: every response the server writes carries the id of the request it
\* answers, whether it holds a result or an error; the id is null only when the request
\* line could not be parsed or the request's own id is null.
C14_EchoesId ==
    \A c \in Conns : reply[c].some =>
        /\ req[c].method # "undecoded" => reply[c].v.id = req[c].id
        /\ req[c].method = "undecoded" => IsNull(reply[c].v.id)
        /\ IsNull(reply[c].v.id) => (req[c].method = "undecoded" \/ IsNull(req[c].id))

\* one connection got a result under the id "u1" of its request, the other a "Parse error"
\* under the id null
C14_Witness ==
    \E c1, c2 \in Conns :
        /\ Answered(c1, "register_instance")
        /\ IsResult(reply[c1].v)
        /\ req[c1].id = JStr("u1") /\ reply[c1].v.id = JStr("u1")
        /\ Answered(c2, "undecoded")
        /\ IsError(reply[c2].v, PARSE_ERROR) /\ IsNull(reply[c2].v.id)

\* C15: every response line the server produces has exactly one of the members result and
\* error, never both and never neither; the response to a query_instance for an
\* unregistered identifier has the member result, with the value null.
C15_ResultXorError ==
    \A c \in Conns : reply[c].some =>
        LET members == DOMAIN to_string(reply[c].v)
        IN  /\ ("result" \in members) <=> ("error" \notin members)
            /\ (Answered(c, "query_instance") /\ IsResult(reply[c].v) /\ IsNull(reply[c].v.result.v)) =>
                  "result" \in members

\* lines of both kinds were written: a query_instance answered with the result null and
\* an error
C15_Witness ==
    \E c1, c2 \in Conns :
        /\ Answered(c1, "query_instance")
        /\ DOMAIN to_string(reply[c1].v) = {"jsonrpc", "result", "id"}
        /\ IsNull(to_string(reply[c1].v).result)
        /\ reply[c2].some
        /\ DOMAIN to_string(reply[c2].v) = {"jsonrpc", "error", "id"}

\* connection c reads a line that does not decode in the step
ReadsUndecodable(c) == lines'[c].undecoded = lines[c].undecoded + 1

\* C16: a request line that is not a decodable request gets a response with the error code
\* -32700 and the id null on the same connection, the registry is unchanged, and the
\* connection stays open, so that a later well-formed request on it is still answered.
C16_ParseError ==
    [][\A c \in Conns : ReadsUndecodable(c) =>
          /\ reply'[c].some
          /\ IsError(reply'[c].v, PARSE_ERROR)
          /\ IsNull(reply'[c].v.id)
          /\ lines'[c].written = lines[c].written + 1
          /\ instances' = instances
          /\ pc[c] = "idle" /\ pc'[c] = "idle"
      ]_vars

\* a connection that sent a line that does not decode has its next request, a well-formed
\* list_instances, answered with a result
C16_Witness ==
    \E c \in Conns :
        /\ lines[c].undecoded = 1
        /\ lines[c].read = 2
        /\ Answered(c, "list_instances")
        /\ IsResult(reply[c].v)

\* connection c reads a request in the step for which handle_request calls nothing
ReadsUnrouted(c) ==
    /\ lines'[c].read = lines[c].read + 1
    /\ "params" \in DOMAIN req'[c]
    /\ req'[c].method # "shutdown"

\* C17: a decoded request that cannot be routed gets an error response and changes nothing
\* in the registry: a method name that is not recognized gets the code -32601, and
\* query_instance, register_instance or unregister_instance with params that do not decode
\* gets INTERNAL_ERROR (-32000) with the text of the decoding failure.
C17_Unrouted ==
    [][/\ \A c \in Conns : ReadsUnrouted(c) =>
             /\ reply'[c].some
             /\ reply'[c].v.id = req'[c].id
             /\ instances' = instances
             /\ IF req'[c].method \notin Methods
                THEN IsError(reply'[c].v, METHOD_NOT_FOUND)
                ELSE /\ DecodesParams(req'[c].method)
                     /\ ~from_value(req'[c].method, req'[c].params).ok
                     /\ IsError(reply'[c].v, INTERNAL_ERROR)
                     /\ INTERNAL_ERROR = -32000
                     /\ reply'[c].v.error.v.message = "Invalid parameters: " \o from_value(req'[c].method, req'[c].params).e
       /\ \A c \in Conns : (lines'[c].read = lines[c].read + 1 /\ "params" \notin DOMAIN req'[c]) =>
             req'[c].method \in Methods \cup {"undecoded"}
      ]_vars

\* one connection was answered "Method not found", the other "Invalid parameters" for a
\* register_instance without server_address
C17_Witness ==
    \E c1, c2 \in Conns :
        /\ reply[c1].some /\ req[c1].method = "ping"
        /\ IsError(reply[c1].v, METHOD_NOT_FOUND)
        /\ Answered(c2, "register_instance")
        /\ IsError(reply[c2].v, INTERNAL_ERROR)
        /\ reply[c2].v.error.v.message = "Invalid parameters: missing field server_address"
        /\ instances = {}

\* the request read on connection c has no response yet and the process is running
InFlight(c) ==
    pc[c] \in {"query_wait", "query_read", "register_wait", "register_locked", "unregister_wait",
               "unregister_locked", "list_wait", "sweep_iter", "list_read_wait", "list_read"}

Ends(c) == pc[c] \notin {"closed", "failed"} /\ pc'[c] \in {"closed", "failed"}

\* C19: connections are handled independently: a connection that is idle holds no guard of
\* the table, and a connection that its peer closes or that fails with a read or write
\* error ends its own task only: the registry, the guards, the health check task and the
\* other connections, with the requests they hold and their responses, are left as they were.
C19_Independent ==
    [][/\ \A c \in Conns : Ends(c) =>
             /\ c \notin writer \cup readers
             /\ instances' = instances
             /\ UNCHANGED <<writer, readers, now, to_remove, todo>>
             /\ \A t \in Tasks \ {c} : pc'[t] = pc[t]
             /\ \A d \in Conns \ {c} : req'[d] = req[d] /\ reply'[d] = reply[d] /\ lines'[d] = lines[d]
       /\ \A c \in Conns : pc'[c] \in {"idle", "closed", "failed"} => c \notin writer' \cup readers'
      ]_vars

\* one connection has failed after its request; the other holds the write guard for its
\* register_instance and the health check task waits for the table
C19_Witness ==
    \E c1, c2 \in Conns :
        /\ pc[c1] = "failed"
        /\ lines[c1].read = 1
        /\ pc[c2] = "register_locked"
        /\ pc[Sched] = "sweep_wait"

----------------------------------------------------------------------------
(* Probe failures and shutdown *)

\* C22: a failed liveness probe is never turned into an RPC error: no response carries the
\* code HEALTH_CHECK_FAILED (-32003), list_instances, which runs a sweep, and query_instance
\* are always answered with a result, and every error a response carries is explained by
\* the request line alone or by the identifier being present or absent.
C22_NoProbeError ==
    \A c \in Conns : reply[c].some =>
        LET resp == reply[c].v
        IN  /\ resp.error.some => resp.error.v.code # HEALTH_CHECK_FAILED
            /\ HEALTH_CHECK_FAILED = -32003
            /\ (req[c].method = "list_instances" /\ "params" \notin DOMAIN req[c]) => IsResult(resp)
            /\ (req[c].method = "query_instance" /\ "params" \notin DOMAIN req[c]) => IsResult(resp)
            /\ resp.error.some =>
                  \/ req[c].method = "undecoded" /\ IsError(resp, PARSE_ERROR)
                  \/ "params" \in DOMAIN req[c] /\ req[c].method \notin Methods /\ IsError(resp, METHOD_NOT_FOUND)
                  \/ "params" \in DOMAIN req[c] /\ DecodesParams(req[c].method) /\ IsError(resp, INTERNAL_ERROR)
                  \/ "params" \notin DOMAIN req[c] /\ req[c].method = "register_instance"
                        /\ IsError(resp, INSTANCE_ALREADY_EXISTS)
                  \/ "params" \notin DOMAIN req[c] /\ req[c].method = "unregister_instance"
                        /\ IsError(resp, INSTANCE_NOT_FOUND)

\* a list_instances whose own sweep evicted a record for a failed probe was answered with
\* a result, the empty list
C22_Witness ==
    \E c \in Conns :
        /\ Answered(c, "list_instances")
        /\ seen[c].post.done
        /\ seen[c].post.bad # {}
        /\ IsResult(reply[c].v)
        /\ reply[c].v.result.v = JArr({})

\* the process exits in the step
Exits == \E t \in Tasks : pc[t] # "exited" /\ pc'[t] = "exited"

\* C23: a shutdown request ends the process at once: the step that dispatches it writes
\* no response, neither to it nor to a request in flight on another connection, ends every
\* task whatever it is doing, a sweep included, and no step after it changes the
\* registry, the guards, a response or a line count.
C23_ShutdownAtOnce ==
    [][/\ Exits =>
             /\ \A t \in Tasks : pc'[t] = "exited"
             /\ \E c \in Conns :
                   /\ pc[c] = "idle"
                   /\ req'[c].method = "shutdown"
                   /\ ~reply'[c].some
                   /\ lines'[c].read = lines[c].read + 1
             /\ \A c \in Conns : lines'[c].written = lines[c].written
             /\ \A c \in Conns : pc[c] # "idle" => reply'[c] = reply[c] /\ req'[c] = req[c]
             /\ instances' = instances
             /\ UNCHANGED <<writer, readers, now, to_remove, todo>>
       /\ (\E t \in Tasks : pc[t] = "exited") =>
             /\ \A t \in Tasks : pc[t] = "exited"
             /\ UNCHANGED <<instances, writer, readers, pc, req, reply, lines>>
      ]_vars

\* the process has exited on a shutdown request while the list_instances of the other
\* connection was inside its sweep, holding the write guard: neither request has a response
C23_Witness ==
    \E c, d \in Conns :
        /\ \A t \in Tasks : pc[t] = "exited"
        /\ req[c].method = "shutdown" /\ ~reply[c].some
        /\ writer = {d}
        /\ req[d].method = "list_instances" /\ ~reply[d].some
        /\ lines[d].read = lines[d].written + 1

----------------------------------------------------------------------------
(* Records over their lifetime *)

\* C26: a register_instance rejected because the identifier already exists leaves the
\* existing record completely unchanged, in its endpoint, health_status, registered_at,
\* last_ping and last_health_check, and touches no other record; it is rejected exactly
\* when the identifier is present.
C26_RejectedRegister ==
    [][\A c \in Conns : Registers(c) =>
          /\ IsError(reply'[c].v, INSTANCE_ALREADY_EXISTS) <=> req[c].identifier \in Keys(instances)
          /\ IsError(reply'[c].v, INSTANCE_ALREADY_EXISTS) =>
                /\ instances' = instances
                /\ get(instances', req[c].identifier) = get(instances, req[c].identifier)
      ]_vars

\* a register_instance with another endpoint was rejected and the record under its
\* identifier is still the one a sweep made Healthy at the time 1, with its first endpoint
C26_Witness ==
    \E c \in Conns : \E r \in instances :
        /\ Answered(c, "register_instance")
        /\ IsError(reply[c].v, INSTANCE_ALREADY_EXISTS)
        /\ r.identifier = req[c].identifier
        /\ r.server_address # req[c].server_address
        /\ r.health_status = "Healthy"
        /\ r.registered_at = 0 /\ r.last_ping = MaxTime /\ r.last_health_check = MaxTime

\* C27: after an identifier has been removed, by unregister_instance or by eviction in a
\* sweep, it is absent, and a register_instance that finds it absent succeeds and creates
\* a fresh record with the new endpoint, health_status Unknown and timestamps not before
\* the removal, whatever the status of the removed record was.
C27_RegisterAfterRemoval ==
    [][/\ \A i \in Ids : removed'[i] # removed[i] =>
             /\ i \in Keys(instances) \ Keys(instances')
             /\ removed'[i] = Some(get(instances, i).health_status)
       /\ \A c \in Conns : (Registers(c) /\ removed[req[c].identifier].some
                               /\ req[c].identifier \notin Keys(instances)) =>
             /\ IsResult(reply'[c].v) /\ IsStr(reply'[c].v.result.v, "registered")
             /\ Keys(instances') = Keys(instances) \cup {req[c].identifier}
             /\ instances \subseteq instances'
             /\ LET r == get(instances', req[c].identifier)
                IN  /\ r.server_address = req[c].server_address
                    /\ r.health_status = "Unknown"
                    /\ r.registered_at >= clock
                    /\ r.last_ping >= r.registered_at
                    /\ r.last_health_check >= r.last_ping
      ]_vars

\* an identifier whose Healthy record was removed is registered again: its record is
\* Unknown, under the endpoint of the register_instance that was answered "registered"
C27_Witness ==
    \E c \in Conns : \E r \in instances :
        /\ Answered(c, "register_instance")
        /\ IsResult(reply[c].v)
        /\ r.identifier = req[c].identifier
        /\ removed[r.identifier] = Some("Healthy")
        /\ r.health_status = "Unknown"
        /\ r.server_address = req[c].server_address

\* C28: in every state a reader can observe, that is with no write guard held, every record
\* satisfies registered_at <= last_ping <= last_health_check and a Healthy record has
\* last_ping = last_health_check; a record that a sweep has probed and found dead exists
\* only while that sweep holds the write guard.
C28_TimestampsOrdered ==
    /\ writer = {} =>
          \A r \in instances :
              /\ r.registered_at <= r.last_ping
              /\ r.last_ping <= r.last_health_check
              /\ r.health_status = "Healthy" => r.last_ping = r.last_health_check
    /\ \A t \in Tasks : to_remove[t] # {} => writer = {t}
    /\ \A c \in Conns : c \in readers => writer = {}

\* a query holds the read guard on a Healthy record registered at the time 0 and probed at
\* the time 1
C28_Witness ==
    \E c \in Conns : \E r \in instances :
        /\ pc[c] = "query_read" /\ c \in readers
        /\ r.identifier = req[c].identifier
        /\ r.health_status = "Healthy"
        /\ r.registered_at = 0
        /\ r.last_ping = MaxTime /\ r.last_health_check = MaxTime

\* the probe of this identifier returns Err in the step of task t
ErrProbe(t, identifier) == identifier \notin errs[t] /\ identifier \in errs'[t]

\* C29: a liveness probe that returns an error is treated exactly like one that reports
\* the instance dead: the record keeps its status and last_ping and is put on to_remove,
\* the sweep goes on with the remaining records under the same guard, and at its end the
\* record is evicted and health_check_all returns Ok(()): the health check task goes back
\* to its timer and list_instances goes on to read the table.
C29_ProbeErrorEvicts ==
    [][/\ \A t \in Tasks : \A i \in Ids : ErrProbe(t, i) =>
             /\ i \in to_remove'[t]
             /\ todo'[t] = todo[t] \ {i}
             /\ pc'[t] = "sweep_iter"
             /\ writer' = {t}
             /\ instances' = insert(instances, i, [get(instances, i) EXCEPT !.last_health_check = now[t]])
             /\ instances' = insert(instances, i, health_check_one(get(instances, i), unwrap_or_false("ok_false"), now[t]))
       /\ \A t \in Tasks : errs'[t] \subseteq to_remove'[t]
       /\ \A t \in Tasks : SweepEnds(t) =>
             /\ Keys(instances') = Keys(instances) \ to_remove[t]
             /\ errs[t] \cap Keys(instances') = {}
             /\ pc'[t] = IF t = Sched THEN "tick" ELSE "list_read_wait"
             /\ writer' = {}
      ]_vars

\* the probe of one record has returned Err in a running sweep: the record is on
\* to_remove, still in the table, and the sweep has another record left to probe
C29_Witness ==
    \E t \in Tasks :
        /\ pc[t] = "sweep_iter"
        /\ errs[t] # {}
        /\ errs[t] = to_remove[t]
        /\ errs[t] \subseteq Keys(instances)
        /\ todo[t] # {}

\* connection c reads a blank line in the step
ReadsBlank(c) == lines'[c].blank = lines[c].blank + 1

\* a line that is empty or holds only whitespace
IsBlank(line) == line.t = "text" /\ line.s \in {"", " "}

\* C30: a line that is empty or holds only whitespace is skipped: no handler answers it,
\* the step that reads it writes no response, leaves the registry, the guards and every
\* request and response as they were, and the connection is back at reading its next line.
C30_BlankSkipped ==
    [][/\ \A c \in Conns : ReadsBlank(c) =>
             /\ pc[c] = "idle" /\ pc'[c] = "idle"
             /\ lines'[c].written = lines[c].written
             /\ lines'[c].read = lines[c].read
             /\ UNCHANGED <<instances, writer, readers, pc, req, reply, now, to_remove, todo>>
       /\ \A c \in Conns : \A line \in WireLines : IsBlank(line) =>
             /\ ~parse_error(c, line)
             /\ ~method_not_found(c, line)
             /\ ~invalid_parameters(c, line)
             /\ ~dispatch(c, line)
             /\ ~shutdown(c, line)
      ]_vars

\* a connection has read a blank line and a request, and the request was answered with a
\* result: one line read, one blank, one written, and the connection is reading again
C30_Witness ==
    \E c \in Conns :
        /\ lines[c].blank = 1
        /\ lines[c].read = 1
        /\ lines[c].written = 1
        /\ reply[c].some /\ IsResult(reply[c].v)
        /\ pc[c] = "idle"

----------------------------------------------------------------------------
(* The control client *)

\* what holds of every call of ensure_manager_running, running or returned
EnsureBounded ==
    /\ client.attempts <= 11
    /\ client.spawns <= 1
    /\ client.spawns = 1 => client.fails >= 1
    /\ client.pc = "done" => client.result.some
    /\ client.result.some =>
          IF client.result.v.ok
          THEN /\ client.fails = client.attempts - 1
               /\ client.attempts = 1 <=> client.spawns = 0
          ELSE IF client.result.v.e = "Manager not responding after startup"
          THEN client.attempts = 11 /\ client.fails = 11 /\ client.spawns = 1
          ELSE client.attempts = 1 /\ client.fails = 1 /\ client.spawns = 0

\* C20: ensure_manager_running always returns: it makes one connection attempt and, when
\* that succeeds, returns Ok without spawning; otherwise it spawns the manager at most once
\* and makes at most 10 further attempts, one after each delay, returning Ok at the first
\* that connects and "Manager not responding after startup" after the 10th has failed.
C20_EnsureTerminates ==
    /\ []EnsureBounded
    /\ []<>(client.pc \in {"start", "done"})

\* a call has returned "Manager not responding after startup" after 11 failed attempts
\* and one spawn
C20_Witness ==
    /\ client.pc = "done"
    /\ client.result = Some(Err("Manager not responding after startup"))
    /\ client.attempts = 11
    /\ client.spawns = 1

----------------------------------------------------------------------------
(* The health check task over the lifetime of the server *)

\* the Neovim at an address exits: from now on no probe of the address succeeds
die(a) ==
    /\ a \notin dead
    /\ dead' = dead \cup {a}
    /\ UNCHANGED <<instances, lock, pc, req, reply, sweep, clock, nreq, hist, seen, swept, lines, manager, client, send, launch>>

\* the callers of this scenario never send list_instances
LiveRequests == {r \in Requests : r.method # "list_instances"}

NextLive ==
    \/ interval_tick
    \/ health_check_all_lock(Sched)
    \/ \E i \in Ids, o \in ProbeOutcomes : health_check_all_probe(Sched, i, o)
    \/ health_check_all_finish(Sched)
    \/ \E a \in Addrs : die(a)
    \/ \E c \in Conns, r \in LiveRequests : nreq < MaxLiveReqs /\ read_line(c, r)
    \/ \E c \in Conns : query_instance_lock(c)
    \/ \E c \in Conns : query_instance(c)
    \/ \E c \in Conns : register_instance_lock(c)
    \/ \E c \in Conns : register_instance(c)
    \/ \E c \in Conns : unregister_instance_lock(c)
    \/ \E c \in Conns : unregister_instance(c)

\* The runtime keeps polling every spawned task, the interval keeps firing, a probe
\* returns (connect fails or the 1 s timeout of health_check_all elapses), and the RwLock
\* queues its waiters fairly: the sweep gets the write guard once the guards held are
\* dropped, and a task holding a guard runs on until it drops it.
FairLive ==
    /\ WF_vars(interval_tick)
    /\ SF_vars(health_check_all_lock(Sched))
    /\ WF_vars(\E i \in Ids, o \in ProbeOutcomes : health_check_all_probe(Sched, i, o))
    /\ WF_vars(health_check_all_finish(Sched))
    /\ \A c \in Conns : WF_vars(query_instance(c))
    /\ \A c \in Conns : WF_vars(register_instance(c))
    /\ \A c \in Conns : WF_vars(unregister_instance(c))

SpecLive == Init /\ [][NextLive]_vars /\ FairLive

\* the table holds a record of this identifier at this address
Registered(i, a) == \E r \in instances : r.identifier = i /\ r.server_address = a

----------------------------------------------------------------------------
(* ManagerClient::send_request and the commands of the control client *)

\* Result<JsonRpcResponse>::Ok
OkOf(v) == [ok |-> TRUE, v |-> v]

\* json!({})
EmptyObject == [k \in {} |-> k]

\* the subcommands: the method each sends and the params it builds
Commands ==
    {[command |-> "query",      method |-> "query_instance",      params |-> JObj([identifier |-> "A"])],
     [command |-> "list",       method |-> "list_instances",      params |-> JObj(EmptyObject)],
     [command |-> "register",   method |-> "register_instance",   params |-> JObj([identifier |-> "A", server_address |-> "a1"])],
     [command |-> "unregister", method |-> "unregister_instance", params |-> JObj([identifier |-> "A"])],
     [command |-> "shutdown",   method |-> "shutdown",            params |-> JObj(EmptyObject)]}

\* the JsonRpcRequest that send_request builds
request_of(snd) == [jsonrpc |-> "2.0", method |-> snd.method, params |-> snd.params, id |-> snd.id]

\* serde_json::to_string(&request): every member of the request is written
to_string_request(request) ==
    [t |-> "request",
     v |-> [jsonrpc |-> request.jsonrpc, method |-> request.method, params |-> request.params, id |-> request.id]]

\* the line the server writes for a response
ResponseLine(response) == [t |-> "response", v |-> to_string(response)]

\* the JsonRpcError decoded from the member error: data is None when the member is missing
from_str_error(m) ==
    [code |-> m.code, message |-> m.message,
     data |-> IF "data" \in DOMAIN m THEN Some(m.data) ELSE None]

\* a decoder that keeps a result of null as Some(Value::Null)
from_str_response_keeping_null(line) ==
    IF line.t # "response" \/ ~({"jsonrpc", "id"} \subseteq DOMAIN line.v)
    THEN None
    ELSE Some([jsonrpc |-> line.v.jsonrpc,
               result  |-> IF "result" \in DOMAIN line.v THEN Some(line.v.result) ELSE None,
               error   |-> IF "error" \in DOMAIN line.v THEN Some(from_str_error(line.v.error)) ELSE None,
               id      |-> line.v.id])

\* serde_json::from_str::<JsonRpcResponse>: jsonrpc and id are required; an Option member
\* is None when the member is missing and also when its value is null
from_str_response(line) ==
    IF line.t # "response" \/ ~({"jsonrpc", "id"} \subseteq DOMAIN line.v)
    THEN None
    ELSE Some([jsonrpc |-> line.v.jsonrpc,
               result  |-> IF "result" \in DOMAIN line.v /\ ~IsNull(line.v.result) THEN Some(line.v.result) ELSE None,
               error   |-> IF "error" \in DOMAIN line.v THEN Some(from_str_error(line.v.error)) ELSE None,
               id      |-> line.v.id])

\* a command calls send_request, which first calls ensure_manager_running
send_request(cmd) ==
    /\ send.pc \in {"start", "done"}
    /\ client.pc \in {"start", "done"}
    /\ client.calls < MaxCalls
    /\ send.sends < NumConns
    /\ send' = [NoSend EXCEPT !.pc = "ensure", !.command = cmd.command, !.method = cmd.method,
                              !.params = cmd.params, !.id = JStr("u1"), !.sends = send.sends + 1]
    /\ UNCHANGED <<server, manager, client, launch>>

\* the call of ensure_manager_running for this send has not been made yet
EnsureDue == send.pc = "ensure" /\ client.calls < send.sends

\* `self.ensure_manager_running().await?`, then TcpStream::connect(&self.addr).await?: the
\* connection is the next one the manager accepts; it is refused when nothing listens
send_request_connect ==
    /\ send.pc = "ensure"
    /\ client.calls = send.sends
    /\ client.pc = "done"
    /\ send' = IF ~client.result.v.ok
               THEN [send EXCEPT !.pc = "returned", !.result = Some(Err(client.result.v.e))]
               ELSE IF connect_is_ok /\ pc[send.sends] = "idle"
               THEN [send EXCEPT !.pc = "write", !.conn = send.sends, !.connects = @ + 1]
               ELSE [send EXCEPT !.pc = "returned", !.result = Some(Err("Connection refused"))]
    /\ UNCHANGED <<server, manager, client, launch>>

\* write_all of the request line and of "\n", flush: each returns Ok or an Err that `?` returns
send_request_write(ok) ==
    /\ send.pc = "write"
    /\ send' = IF ok
               THEN [send EXCEPT !.pc = "read", !.written = @ + 1]
               ELSE [send EXCEPT !.pc = "returned", !.result = Some(Err("write failed"))]
    /\ UNCHANGED <<server, manager, client, launch>>

\* the request line of the control client has arrived on connection c and is not yet read
Delivered(c) == send.conn = c /\ send.written = 1 /\ lines[c].read = 0

\* the line on the wire
SentLine == to_string_request(request_of(send))

\* what read_line can return to the client: Ok(0) once the manager has exited or is gone,
\* an Err, the response line the manager wrote on the connection, or the line of a peer
\* that is not the manager
Inputs ==
    IF send.conn \notin Conns THEN {}
    ELSE {[t |-> "err"], Text(" "), Text("not-json")}
         \cup (IF pc[send.conn] = "exited" \/ manager # "up" THEN {[t |-> "eof"]} ELSE {})
         \cup (IF reply[send.conn].some /\ lines[send.conn].written = 1
               THEN {ResponseLine(reply[send.conn].v)} ELSE {})

\* what send_request returns for the outcome of its read_line
send_request_result(input) ==
    IF input.t = "err" THEN Err("read failed")
    ELSE IF input.t = "eof" THEN Err("Connection closed by manager")
    ELSE IF is_empty(trim(input)) THEN Err("Empty response from manager")
    ELSE IF ~from_str_response(trim(input)).some THEN Err("Failed to parse response")
    ELSE OkOf(from_str_response(trim(input)).v)

\* a send_request that writes its request again when the connection was closed without data
send_request_read_resending(input) ==
    /\ send.pc = "read"
    /\ input \in Inputs
    /\ send' = IF input.t = "eof"
               THEN [send EXCEPT !.written = @ + 1]
               ELSE [send EXCEPT !.pc = "returned",
                                 !.read = IF input.t = "err" THEN @ ELSE @ + 1,
                                 !.result = Some(send_request_result(input))]
    /\ UNCHANGED <<server, manager, client, launch>>

\* reader.read_line(&mut line).await? and everything after it
send_request_read(input) ==
    /\ send.pc = "read"
    /\ input \in Inputs
    /\ send' = [send EXCEPT !.pc = "returned",
                            !.read = IF input.t \in {"err", "eof"} THEN @ ELSE @ + 1,
                            !.result = Some(send_request_result(input))]
    /\ UNCHANGED <<server, manager, client, launch>>

\* what a command prints on stdout for a response without error
printed(command, response) ==
    CASE command = "shutdown"   -> "Manager shutdown requested"
      [] command = "query"      -> IF response.result.some THEN "result" ELSE "null"
      [] command = "list"       -> IF response.result.some THEN "result" ELSE ""
      [] command = "register"   ->
             IF response.result.some
             THEN "Success: " \o (IF response.result.v.t = "str" THEN response.result.v.v ELSE "registered")
             ELSE ""
      [] command = "unregister" ->
             IF response.result.some
             THEN "Success: " \o (IF response.result.v.t = "str" THEN response.result.v.v ELSE "unregistered")
             ELSE ""

\* the command after `send_request(..).await?`: an Err goes up through main and the process
\* exits with status 1; a response with an error is printed to stderr and exit(1) is
\* called; otherwise the command prints its line and main returns Ok(())
command_return ==
    /\ send.pc = "returned"
    /\ send' = IF send.result.v.ok
               THEN IF send.result.v.v.error.some
                    THEN [send EXCEPT !.pc = "done", !.exit = Some(1)]
                    ELSE [send EXCEPT !.pc = "done", !.exit = Some(0), !.out = printed(send.command, send.result.v.v)]
               ELSE [send EXCEPT !.pc = "done", !.exit = Some(1)]
    /\ UNCHANGED <<server, manager, client, launch>>

\* The control client against one manager process: the manager reads what the client wrote.
NextSend ==
    \/ \E cmd \in Commands : send_request(cmd)
    \/ EnsureDue /\ ensure_manager_running_connect
    \/ \E spawned \in BOOLEAN : start_manager(spawned)
    \/ ensure_manager_running_for
    \/ ensure_manager_running_retry
    \/ \E from, to \in {"down", "starting", "up"} : manager_step(from, to)
    \/ send_request_connect
    \/ \E ok \in BOOLEAN : send_request_write(ok)
    \/ \E input \in Inputs : send_request_read(input)
    \/ command_return
    \/ \E c \in Conns : Delivered(c) /\ dispatch(c, SentLine)
    \/ \E c \in Conns : Delivered(c) /\ shutdown(c, SentLine)
    \/ \E c \in Conns : query_instance_lock(c)
    \/ \E c \in Conns : query_instance(c)
    \/ \E c \in Conns : register_instance_lock(c)
    \/ \E c \in Conns : register_instance(c)
    \/ \E c \in Conns : unregister_instance_lock(c)
    \/ \E c \in Conns : unregister_instance(c)
    \/ \E t \in Conns : health_check_all_lock(t)
    \/ \E t \in Conns, i \in Ids, o \in ProbeOutcomes : health_check_all_probe(t, i, o)
    \/ \E t \in Conns : health_check_all_finish(t)
    \/ \E c \in Conns : list_instances_lock(c)
    \/ \E c \in Conns : list_instances(c)

SpecSend == Init /\ [][NextSend]_vars

----------------------------------------------------------------------------
(* The control client's requests *)

\* the failures of send_request after ensure_manager_running returned Ok(())
TransportFailures ==
    {"Connection refused", "write failed", "read failed", "Connection closed by manager",
     "Empty response from manager", "Failed to parse response"}

\* the manager was found reachable by the ensure_manager_running of the current send
Reachable == client.calls = send.sends /\ client.pc = "done" /\ client.result = Some(Ok)

\* C21: each send of the control client opens at most one connection for its request,
\* writes at most one request line on it, exactly one when it gets to read, and reads at
\* most one response line; once the manager was found reachable every failure (connection
\* refused, closed without data, empty line, line that does not decode, read or write
\* error) is returned as an Err at once, with no second connection and no second request
\* line; the manager reads at most one line per connection of the client.
C21_OneShot ==
    /\ send.connects <= 1
    /\ send.written <= send.connects
    /\ send.read <= send.written
    /\ send.pc = "read" => send.written = 1
    /\ send.pc \in {"returned", "done"} <=> send.result.some
    /\ send.result.some =>
          IF send.result.v.ok
          THEN Reachable /\ send.connects = 1 /\ send.written = 1 /\ send.read = 1
          ELSE IF Reachable
          THEN /\ send.result.v.e \in TransportFailures
               /\ send.result.v.e = "Connection refused" <=> send.connects = 0
               /\ send.result.v.e \in {"Empty response from manager", "Failed to parse response"} <=> send.read = 1
          ELSE send.connects = 0 /\ send.result.v.e = client.result.v.e
    /\ send.pc = "done" => send.exit.some /\ (~send.result.v.ok => send.exit = Some(1))
    /\ \A c \in Conns : lines[c].read <= 1 /\ (lines[c].read = 1 => c <= send.sends)

\* a query command has failed with "Connection closed by manager" after the manager was
\* found reachable at the first attempt: one connection, one request line, no retry
C21_Witness ==
    /\ send.pc = "done"
    /\ send.command = "query"
    /\ send.result = Some(Err("Connection closed by manager"))
    /\ Reachable /\ client.attempts = 1
    /\ send.connects = 1 /\ send.written = 1 /\ send.read = 0
    /\ send.exit = Some(1)

\* the envelopes of the requests a peer can send
WireRequests ==
    {[jsonrpc |-> "2.0", method |-> m, params |-> ps, id |-> u] : m \in WireMethods, ps \in WireParams, u \in WireIds}

\* C24 as claimed: encoding a request or response envelope to its wire line and decoding
\* that line again yields an envelope equal field for field to the original, including
\* whether result and error are present or absent, for every response the server
\* produces, a query_instance result of null included.
C24_Claimed ==
    /\ \A request \in WireRequests : from_str(to_string_request(request)) = Some(request)
    /\ \A c \in Conns : reply[c].some =>
          from_str_response(ResponseLine(reply[c].v)) = Some(reply[c].v)

\* C24 as amended: encoding a request or response envelope to its wire line and decoding
\* that line again yields an envelope equal field for field to the original, including
\* whether result and error are present or absent, except that a response whose result
\* is null, as for a query_instance of an unregistered identifier, decodes to a response
\* with no result.
C24_RoundTrip ==
    /\ \A request \in WireRequests : from_str(to_string_request(request)) = Some(request)
    /\ \A c \in Conns : reply[c].some =>
          LET response == reply[c].v
              back == from_str_response(ResponseLine(response))
          IN  /\ back.some
              /\ back.v.jsonrpc = response.jsonrpc
              /\ back.v.id = response.id
              /\ back.v.error = response.error
              /\ back.v.result = IF response.result.some /\ IsNull(response.result.v) THEN None ELSE response.result

\* a query_instance was answered with the result null, which decodes to neither result nor
\* error, and the other connection with an error carrying data, which decodes to itself
C24_Witness ==
    \E c1, c2 \in Conns :
        /\ Answered(c1, "query_instance")
        /\ IsResult(reply[c1].v) /\ IsNull(reply[c1].v.result.v)
        /\ ~from_str_response(ResponseLine(reply[c1].v)).v.result.some
        /\ ~from_str_response(ResponseLine(reply[c1].v)).v.error.some
        /\ reply[c2].some
        /\ reply[c2].v.error.some /\ reply[c2].v.error.v.data.some
        /\ from_str_response(ResponseLine(reply[c2].v)) = Some(reply[c2].v)

\* the manager has handled the shutdown request of the command that has now ended
ShutdownHandled ==
    /\ send.pc = "done"
    /\ send.command = "shutdown"
    /\ send.conn \in Conns
    /\ IF send.conn \in Conns
       THEN req[send.conn].method = "shutdown" /\ pc[send.conn] = "exited"
       ELSE FALSE

\* no read or write error and no line of another peer has come between the client and the
\* manager: send_request returned a response or found the connection closed by the manager
Undisturbed ==
    /\ send.result.some
    /\ IF send.result.v.ok THEN TRUE ELSE send.result.v.e = "Connection closed by manager"

\* C25: when the server handles a shutdown request sent by the control client's shutdown
\* command, that command completes successfully: it prints "Manager shutdown requested"
\* and returns without a failure.
C25_ShutdownCommandSucceeds ==
    (ShutdownHandled /\ Undisturbed) => (send.exit = Some(0) /\ send.out = "Manager shutdown requested")

----------------------------------------------------------------------------
(* The launcher in local mode (src/src/launcher/main.rs): each launcher is a   *)
(* process of its own; it runs the control client as a child process for       *)
(* every query and register, and the Neovim server and the GUI client as       *)
(* further children.                                                           *)

MaxLaunches == 1       \* Neovim servers launched by one launcher
MaxPolls    == 1       \* value of max_attempts (60) in the wait for Healthy

\* the identifier both launchers compute from their target: generate_identifier
Identifier == "A"

\* format!("127.0.0.1:{}", port) with the port of get_random_port: the n-th server of
\* launcher l listens at an address no other server of the scenario listens at
Ports == <<<<"p11", "p12", "p13">>, <<"p21", "p22", "p23">>>>

\* everything of the manager process but the Neovim instances it probes
registry == <<instances, lock, pc, req, reply, sweep, clock, nreq, hist, seen, swept, lines>>

\* the positions of main at which a control command is run
CommandPcs == {"start", "register", "confirm", "healthy", "monitor", "monitor_instance"}

\* the request the control command of this position sends: query or register
launcher_request(lch) ==
    IF lch.pc = "register"
    THEN JsonRpcRequest("register_instance", Identifier, lch.server_address, JStr("u1"))
    ELSE JsonRpcRequest("query_instance", Identifier, "", JStr("u1"))

\* the request line of launcher l's control command is on its connection and not yet read
Pending(l) == launch[l].sent /\ pc[l] = "idle" /\ req[l] = NoReq

\* handle_client reads the line of a control command and handle_request decodes it: as
\* read_line, for a peer that sends one line per connection
handle_client_read(c, r) ==
    /\ pc[c] = "idle"
    /\ req' = [req EXCEPT ![c] = r]
    /\ pc' = [pc EXCEPT ![c] = WaitPc(r.method)]
    /\ reply' = [reply EXCEPT ![c] = None]
    /\ seen' = [seen EXCEPT ![c] = NoSeen]
    /\ lines' = [lines EXCEPT ![c].read = @ + 1]
    /\ UNCHANGED <<instances, lock, sweep, clock, nreq, hist, swept, ext>>

\* std::process::Output of the control client: exit status and stdout
Output(status, stdout) == [t |-> "output", status |-> status, stdout |-> stdout]

\* Command::output() returns Err: the control client could not be run
SpawnFailed == [t |-> "spawn_failed"]

\* the control client's process for what its send_request returned: status 1 for an Err and
\* for a response with an error; otherwise status 0, and query prints the result or "null"
control_output(result) ==
    IF ~result.ok \/ result.v.error.some
    THEN Output(1, JNull)
    ELSE Output(0, IF result.v.result.some THEN result.v.result.v ELSE JNull)

\* what the control command of launcher l can come back with: before its request line is
\* written it cannot be run or fails to reach the manager; once the manager has answered,
\* the read of the response line returns the line or fails
Outputs(l) ==
    IF ~launch[l].sent
    THEN {SpawnFailed, Output(1, JNull)}
    ELSE IF pc[l] = "idle" /\ reply[l].some
    THEN {control_output(send_request_result(input)) : input \in {[t |-> "err"], ResponseLine(reply[l].v)}}
    ELSE {}

\* LauncherClient::query_instance on the output of `control query`: Err when the command
\* cannot be run or its stdout does not decode, Ok(None) when its status is no success,
\* otherwise stdout decoded as Option<InstanceResult>
LauncherClient_query_instance(out) ==
    IF out.t = "spawn_failed" THEN Err("output failed")
    ELSE IF out.status # 0 THEN OkOf(None)
    ELSE IF out.stdout.t = "null" THEN OkOf(None)
    ELSE IF out.stdout.t = "obj" THEN OkOf(Some(out.stdout.v))
    ELSE Err("Failed to parse JSON from stdout")

\* a register_instance that does not look at the exit status of the command it has run
LauncherClient_register_instance_ignoring_status(out) ==
    IF out.t = "spawn_failed" THEN Err("output failed") ELSE Ok

\* LauncherClient::register_instance on the output of `control register`
LauncherClient_register_instance(out) ==
    IF out.t = "spawn_failed" THEN Err("output failed")
    ELSE IF out.status # 0 THEN Err("Failed to register instance")
    ELSE Ok

\* the control command of this position is run: the manager accepts its connection, whose
\* handle_client has read and written nothing yet, and the request line is written; the
\* task of the command before it has ended with that command's connection
run_command(l) ==
    /\ launch[l].pc \in CommandPcs
    /\ ~launch[l].sent
    /\ pc[l] = "idle"
    /\ launch' = [launch EXCEPT ![l].sent = TRUE]
    /\ req' = [req EXCEPT ![l] = NoReq]
    /\ reply' = [reply EXCEPT ![l] = None]
    /\ seen' = [seen EXCEPT ![l] = NoSeen]
    /\ lines' = [lines EXCEPT ![l] = [read |-> 0, written |-> 0, undecoded |-> 0, blank |-> 0]]
    /\ UNCHANGED <<instances, lock, pc, sweep, clock, nreq, hist, swept, dead, manager, client, send>>

\* the control command run at position p comes back with the output out
returns(l, p, out) ==
    /\ launch[l].pc = p
    /\ out \in Outputs(l)

\* the launcher once the command has come back
back(lch) == [lch EXCEPT !.sent = FALSE]

\* std::process::exit(status), or main returning: Ok(()) is status 0, an Err status 1
exit(lch, status) == [lch EXCEPT !.pc = "exited", !.exit = Some(status), !.attempts = 0]

\* main, local mode: `match client.query_instance(&identifier).await?`
main_query(l, out) ==
    /\ returns(l, "start", out)
    /\ LET r == LauncherClient_query_instance(out)
           lch == back(launch[l])
       IN  launch' = [launch EXCEPT ![l] =
                         IF ~r.ok THEN exit(lch, 1)
                         ELSE IF r.v.some THEN [lch EXCEPT !.pc = "focus", !.saw = "some"]
                         ELSE [lch EXCEPT !.pc = "create", !.saw = "none"]]
    /\ UNCHANGED <<registry, dead, manager, client, send>>

\* focus_existing_instance(..).await?
focus_existing_instance(l, ok) ==
    /\ launch[l].pc = "focus"
    /\ launch' = [launch EXCEPT ![l] = IF ok THEN [@ EXCEPT !.pc = "monitor_instance"] ELSE exit(@, 1)]
    /\ UNCHANGED <<registry, dead, manager, client, send>>

\* one round of the loop of monitor_instance: Ok(None) breaks it and main returns Ok(())
monitor_instance(l, out) ==
    /\ returns(l, "monitor_instance", out)
    /\ LET r == LauncherClient_query_instance(out)
           lch == back(launch[l])
       IN  launch' = [launch EXCEPT ![l] = IF r.ok /\ ~r.v.some THEN exit(lch, 0) ELSE lch]
    /\ UNCHANGED <<registry, dead, manager, client, send>>

\* the head of the restart loop: get_random_port()?, launch_neovim_server(..)?
launch_neovim_server(l, ok) ==
    /\ launch[l].pc = "create"
    /\ launch[l].launches < MaxLaunches
    /\ launch' = [launch EXCEPT ![l] =
                     IF ok
                     THEN [@ EXCEPT !.pc = "ready", !.server_address = Ports[l][launch[l].launches + 1],
                                    !.launches = @ + 1, !.child = "running"]
                     ELSE exit(@, 1)]
    /\ UNCHANGED <<registry, dead, manager, client, send>>

\* the loop on utils::check_nvim_instance(&server_address).unwrap_or(false): the instance
\* answers within max_attempts rounds, or exit(3)
wait_ready(l, ready) ==
    /\ launch[l].pc = "ready"
    /\ ready => launch[l].server_address \notin dead
    /\ launch' = [launch EXCEPT ![l] = IF ready THEN [@ EXCEPT !.pc = "register"] ELSE exit(@, 3)]
    /\ UNCHANGED <<registry, dead, manager, client, send>>

\* `match client.register_instance(&identifier, &server_address).await`: Err(e) => exit(2)
main_register(l, out) ==
    /\ returns(l, "register", out)
    /\ LET r == LauncherClient_register_instance(out)
           lch == back(launch[l])
       IN  launch' = [launch EXCEPT ![l] =
                         IF r.ok
                         THEN [lch EXCEPT !.pc = "confirm", !.accepted = @ + 1]
                         ELSE exit([lch EXCEPT !.refused = @ + 1], 2)]
    /\ UNCHANGED <<registry, dead, manager, client, send>>

\* the query right after the registration: None => exit(4); a record not yet Healthy
\* starts the wait for Healthy
main_confirm(l, out) ==
    /\ returns(l, "confirm", out)
    /\ LET r == LauncherClient_query_instance(out)
           lch == back(launch[l])
       IN  launch' = [launch EXCEPT ![l] =
                         IF ~r.ok THEN exit(lch, 1)
                         ELSE IF ~r.v.some THEN exit(lch, 4)
                         ELSE IF r.v.v.health_status = "Healthy" THEN [lch EXCEPT !.pc = "neovide"]
                         ELSE [lch EXCEPT !.pc = "healthy", !.attempts = 0]]
    /\ UNCHANGED <<registry, dead, manager, client, send>>

\* one round of the wait for Healthy: sleep, query; None => exit(5); attempts += 1 and
\* exit(6) at max_attempts
main_healthy(l, out) ==
    /\ returns(l, "healthy", out)
    /\ LET r == LauncherClient_query_instance(out)
           lch == back(launch[l])
       IN  launch' = [launch EXCEPT ![l] =
                         IF ~r.ok THEN exit(lch, 1)
                         ELSE IF ~r.v.some THEN exit(lch, 5)
                         ELSE IF r.v.v.health_status = "Healthy" THEN [lch EXCEPT !.pc = "neovide", !.attempts = 0]
                         ELSE IF lch.attempts + 1 >= MaxPolls THEN exit(lch, 6)
                         ELSE [lch EXCEPT !.attempts = @ + 1]]
    /\ UNCHANGED <<registry, dead, manager, client, send>>

\* launch_neovide_client(&server_address)?: the GUI client is spawned, or the Err ends main
launch_neovide_client(l, ok) ==
    /\ launch[l].pc = "neovide"
    /\ launch' = [launch EXCEPT ![l] = IF ok THEN [@ EXCEPT !.pc = "monitor", !.guis = @ + 1] ELSE exit(@, 1)]
    /\ UNCHANGED <<registry, dead, manager, client, send>>

\* one round of the loop of monitor_instance_with_exit_code: Ok(None) goes on to wait()
monitor_instance_with_exit_code(l, out) ==
    /\ returns(l, "monitor", out)
    /\ LET r == LauncherClient_query_instance(out)
           lch == back(launch[l])
       IN  launch' = [launch EXCEPT ![l] = IF r.ok /\ ~r.v.some THEN [lch EXCEPT !.pc = "wait"] ELSE lch]
    /\ UNCHANGED <<registry, dead, manager, client, send>>

\* nvim_process.wait() returns once the Neovim server has exited, with the exit code the
\* server has left: exit code 2 continues the restart loop, any other breaks it and main
\* returns Ok(())
wait(l, exit_code) ==
    /\ launch[l].pc = "wait"
    /\ launch[l].child = "exited"
    /\ launch' = [launch EXCEPT ![l] = IF exit_code = 2 THEN [@ EXCEPT !.pc = "create", !.child = "none"] ELSE exit(@, 0)]
    /\ UNCHANGED <<registry, dead, manager, client, send>>

\* environment: the Neovim server a launcher has started exits
nvim_exits(l) ==
    /\ launch[l].child = "running"
    /\ launch' = [launch EXCEPT ![l].child = "exited"]
    /\ dead' = dead \cup {launch[l].server_address}
    /\ UNCHANGED <<registry, manager, client, send>>

\* Two launchers, the manager serving their control commands on a connection each, and
\* the health check task.
NextLaunch ==
    \/ \E l \in Launchers : run_command(l)
    \/ \E l \in Launchers : Pending(l) /\ handle_client_read(l, launcher_request(launch[l]))
    \/ \E l \in Launchers : \E out \in Outputs(l) : main_query(l, out)
    \/ \E l \in Launchers, ok \in BOOLEAN : focus_existing_instance(l, ok)
    \/ \E l \in Launchers : \E out \in Outputs(l) : monitor_instance(l, out)
    \/ \E l \in Launchers, ok \in BOOLEAN : launch_neovim_server(l, ok)
    \/ \E l \in Launchers, ready \in BOOLEAN : wait_ready(l, ready)
    \/ \E l \in Launchers : \E out \in Outputs(l) : main_register(l, out)
    \/ \E l \in Launchers : \E out \in Outputs(l) : main_confirm(l, out)
    \/ \E l \in Launchers : \E out \in Outputs(l) : main_healthy(l, out)
    \/ \E l \in Launchers, ok \in BOOLEAN : launch_neovide_client(l, ok)
    \/ \E l \in Launchers : \E out \in Outputs(l) : monitor_instance_with_exit_code(l, out)
    \/ \E l \in Launchers, exit_code \in {0, 2} : wait(l, exit_code)
    \/ \E l \in Launchers : nvim_exits(l)
    \/ interval_tick
    \/ \E c \in Conns : query_instance_lock(c)
    \/ \E c \in Conns : query_instance(c)
    \/ \E c \in Conns : register_instance_lock(c)
    \/ \E c \in Conns : register_instance(c)
    \/ health_check_all_lock(Sched)
    \/ \E i \in Ids, o \in ProbeOutcomes : health_check_all_probe(Sched, i, o)
    \/ health_check_all_finish(Sched)

\* The launchers are started against a manager that has just been constructed, at a time
\* when the clock reads MaxTime: time only fills the timestamps of the records, and no
\* launcher decides anything on a timestamp.
InitLaunch ==
    /\ instances = {}
    /\ writer = {}
    /\ readers = {}
    /\ pc = [t \in Tasks |-> IF t = Sched THEN "tick" ELSE "idle"]
    /\ req = [c \in Conns |-> NoReq]
    /\ reply = [c \in Conns |-> None]
    /\ now = [t \in Tasks |-> 0]
    /\ to_remove = [t \in Tasks |-> {}]
    /\ todo = [t \in Tasks |-> {}]
    /\ clock = MaxTime
    /\ nreq = 0
    /\ regOk = [i \in Ids |-> 0]
    /\ regDup = [i \in Ids |-> 0]
    /\ fresh = [i \in Ids |-> None]
    /\ freshAny = [i \in Ids |-> None]
    /\ evicted = {}
    /\ failed = {}
    /\ removed = [i \in Ids |-> None]
    /\ errs = [t \in Tasks |-> {}]
    /\ seen = [c \in Conns |-> NoSeen]
    /\ swept = [t \in Tasks |-> NoSweep]
    /\ lines = [c \in Conns |-> [read |-> 0, written |-> 0, undecoded |-> 0, blank |-> 0]]
    /\ dead = {}
    /\ manager = "up"
    /\ client = NoCall
    /\ send = NoSend
    /\ launch = [l \in Launchers |-> NoLaunch]

SpecLaunch == InitLaunch /\ [][NextLaunch]_vars

----------------------------------------------------------------------------
(* Two launchers racing for one identifier *)

\* both launchers have seen their first query_instance return no instance
BothSawNone == \A l \in Launchers : launch[l].saw = "none"

\* the launchers whose register_instance has returned Ok(())
AcceptedLaunchers == {l \in Launchers : launch[l].accepted > 0}

\* the register_instance of launcher l has come back, with Ok(()) or with Err
HasRegistered(l) == launch[l].accepted + launch[l].refused > 0

\* of two launchers at most one has its registration accepted, only that one starts a GUI
\* client, and the other, once its registration has come back, has been refused and has
\* terminated with exit status 2 without a GUI client
OneWins ==
    /\ Cardinality(AcceptedLaunchers) <= 1
    /\ \A l \in Launchers : launch[l].guis > 0 => l \in AcceptedLaunchers
    /\ \A l1, l2 \in Launchers :
          (l1 # l2 /\ l1 \in AcceptedLaunchers /\ HasRegistered(l2)) =>
              /\ launch[l2].refused > 0
              /\ launch[l2].pc = "exited"
              /\ launch[l2].exit = Some(2)
              /\ launch[l2].guis = 0

\* C31 as claimed: when two launchers in local mode run concurrently for the same
\* identifier and both see query_instance return no instance, at most one of them gets
\* its registration accepted and goes on to start a GUI client and monitor the instance;
\* the other's registration is rejected and it terminates with exit status 2 without
\* starting a GUI client.
C31_Claimed == BothSawNone => OneWins

\* C31 as amended: when two launchers in local mode run concurrently for the same
\* identifier and both see query_instance return no instance, then as long as no health
\* check sweep has removed a record under the identifier at most one of them gets its
\* registration accepted and goes on to start a GUI client and monitor the instance,
\* and the other's registration is rejected and it terminates with exit status 2
\* without starting a GUI client.  At any time, a launcher starts a GUI client and
\* monitors only after a registration of its own was accepted, and a launcher whose
\* registration is rejected terminates at once with exit status 2, which is the exit
\* status of nothing else.
C31_OneWinsUntilRemoved ==
    BothSawNone =>
        /\ ~removed[Identifier].some => OneWins
        /\ \A l \in Launchers :
              /\ launch[l].guis > 0 => launch[l].accepted > 0
              /\ launch[l].pc \in {"monitor", "wait"} => launch[l].guis > 0
              /\ launch[l].refused > 0 <=> launch[l].exit = Some(2)
              /\ launch[l].refused > 0 => launch[l].pc = "exited" /\ launch[l].guis < launch[l].launches

\* both launchers saw no instance; the registration of the first was accepted, it has
\* started its GUI client and monitors; the manager has answered the registration of the
\* second with INSTANCE_ALREADY_EXISTS and that launcher has terminated with exit status
\* 2 and no GUI client; no record has been removed
C31_Witness ==
    /\ BothSawNone
    /\ ~removed[Identifier].some
    /\ launch[1].accepted = 1 /\ launch[1].guis = 1 /\ launch[1].pc = "monitor"
    /\ launch[2].accepted = 0 /\ launch[2].refused = 1 /\ launch[2].guis = 0
    /\ launch[2].pc = "exited" /\ launch[2].exit = Some(2)
    /\ reply[2].some
    /\ req[2].method = "register_instance"
    /\ IsError(reply[2].v, INSTANCE_ALREADY_EXISTS)
    /\ contains_key(instances, Identifier)
    /\ get(instances, Identifier).server_address = launch[1].server_address

====
